---- MODULE Spec2Model ----
(***************************************************************************)
(* A model of the email-automator front end, src/src/App.tsx: the API      *)
(* helper apiCall, the root composer App with the AuthScreen login flow,   *)
(* the campaign panels' pre-flight validation and the localStorage-backed  *)
(* template and saved-sender collections.                                  *)
(*                                                                         *)
(* Every specification of this module runs over the same variables; each   *)
(* one starts the program in one of its states and exercises one part:     *)
(*   SpecApi      apiCall applied to every outcome of fetch                *)
(*   SpecAuto     the Auto-Schedule panel's handleSubmit                   *)
(*   SpecSchedule the Schedule panel's handleSubmit                        *)
(*   SpecDomain   the Domain Manager's handleRequestVerification           *)
(*   SpecStore    the persisted templates, one browser tab                 *)
(*   SpecSenders  the persisted sender profiles, one browser tab           *)
(*   SpecSession  login, admin probe, root view, logout, privileged calls  *)
(*   SpecTabs     the persisted collections written from two browser tabs  *)
(*   SpecSignup   the AuthScreen: login, OTP request, signup completion    *)
(*   SpecSignupFair  SpecSignup with the timers of setTimeout firing       *)
(*   SpecAdmin    the AdminDashboard's edit modal and handleUpdate         *)
(*   SpecLogs     the UserStats log table: selection and deletions         *)
(*   SpecChecks   the Domain Manager's checkStatus and handleDeleteDomain   *)
(*   SpecPanels   the submit handlers of the four panels, with file reads  *)
(*   SpecShare    the persisted collections across the campaign panels     *)
(*   SpecEditor   the Schedule panel's body editor and insertTag           *)
(***************************************************************************)
EXTENDS Integers, Sequences, FiniteSets, TLC

(***************************************************************************)
(* JavaScript values.  A value is a record of its typeof tag t and of v,   *)
(* the text String(value) yields (what `new Error(value)` keeps as the     *)
(* message).                                                               *)
(***************************************************************************)
JStr(s) == [t |-> "string", v |-> s]

JNum(n) == [t |-> "number", v |-> ToString(n)]

JBool(b) == [t |-> "boolean", v |-> IF b THEN "true" ELSE "false"]

JUndefined == [t |-> "undefined", v |-> "undefined"]

JNull == [t |-> "null", v |-> "null"]

JObject == [t |-> "object", v |-> "[object Object]"]

\* ToBoolean: the falsy values are undefined, null, false, 0, NaN and "".
Truthy(x) ==
    CASE x.t = "undefined" -> FALSE
      [] x.t = "null" -> FALSE
      [] x.t = "boolean" -> x.v = "true"
      [] x.t = "number" -> x.v \notin {"0", "NaN"}
      [] x.t = "string" -> x.v # ""
      [] OTHER -> TRUE

\* a && b
AndAnd(a, b) == IF Truthy(a) THEN b ELSE a

\* a || b
OrOr(a, b) == IF Truthy(a) THEN a ELSE b

(***************************************************************************)
(* Response bodies.  A body is the raw text the server sent (text) and     *)
(* what JSON.parse makes of it (json: "invalid" when it does not parse).   *)
(* A parsed object carries the fields the program reads.                   *)
(***************************************************************************)
NoFields == [error |-> JUndefined, message |-> JUndefined,
             access_token |-> JUndefined, status |-> JUndefined,
             domain |-> JUndefined, domains |-> <<>>,
             logs |-> <<>>, users |-> <<>>, csv_base64 |-> JUndefined]

ObjBody(fields) == [text |-> "{...}", json |-> "object", str |-> "", fields |-> fields]

NullBody == [text |-> "null", json |-> "null", str |-> "", fields |-> NoFields]

JsonStringBody(s) == [text |-> "\"" \o s \o "\"", json |-> "string", str |-> s, fields |-> NoFields]

TextBody(s) == [text |-> s, json |-> "invalid", str |-> "", fields |-> NoFields]

ErrBody(e, m) == ObjBody([NoFields EXCEPT !.error = e, !.message = m])

\* The parsed data apiCall hands on: res.json() or res.text().
DataOfJson(body) ==
    [t |-> IF body.json = "null" THEN "null" ELSE body.json,
     v |-> IF body.json = "string" THEN body.str
           ELSE IF body.json = "null" THEN "null" ELSE "[object Object]",
     fields |-> body.fields]

DataOfText(body) == [t |-> "string", v |-> body.text, fields |-> NoFields]

NoData == [t |-> "undefined", v |-> "undefined", fields |-> NoFields]

\* typeof data === 'object' (true of null as well)
TypeofObject(data) == JBool(data.t \in {"object", "null"})

\* typeof data === 'string'
TypeofString(data) == JBool(data.t = "string")

\* data?.error and data?.message: undefined on null, the field on an object
OptError(data) == IF data.t = "object" THEN data.fields.error ELSE JUndefined

OptMessage(data) == IF data.t = "object" THEN data.fields.message ELSE JUndefined

(***************************************************************************)
(* Outcomes of fetch: a rejection with an error, or a response.            *)
(***************************************************************************)
Rejection(name, message) ==
    [kind |-> "reject", name |-> name, message |-> message,
     status |-> 0, statusText |-> "", ctype |-> "", body |-> NullBody]

Response(status, statusText, ctype, body) ==
    [kind |-> "response", name |-> "", message |-> "",
     status |-> status, statusText |-> statusText, ctype |-> ctype, body |-> body]

NoFetch ==
    [kind |-> "none", name |-> "", message |-> "",
     status |-> 0, statusText |-> "", ctype |-> "", body |-> NullBody]

\* Response.ok
ResOk(f) == f.status >= 200 /\ f.status <= 299

\* contentType && contentType.indexOf("application/json") !== -1
\* ("" stands for a response without a content-type header)
IsJsonContentType(ct) == ct \in {"application/json", "application/json; charset=utf-8"}

NetworkErrorMessage ==
    "Network Error: Could not connect to server. Check your internet connection or possible CORS issues."

Thrown(name, message, logged) ==
    [k |-> "throw", name |-> name, message |-> message, data |-> NoData, logged |-> logged]

Returned(data) ==
    [k |-> "return", name |-> "", message |-> "", data |-> data, logged |-> FALSE]

\* No call made yet.
NoResult ==
    [k |-> "none", name |-> "", message |-> "", data |-> NoData, logged |-> FALSE]

\* The message of the error thrown for a non-2xx response.
ErrorMessageOf(f, data) ==
    OrOr(AndAnd(TypeofObject(data), OptError(data)),
     OrOr(AndAnd(TypeofObject(data), OptMessage(data)),
      OrOr(AndAnd(TypeofString(data), JStr(data.v)),
           JStr("Server Error: " \o ToString(f.status) \o " " \o f.statusText)))).v

\* The try block of apiCall: what it returns or throws before the catch.
ApiTry(f) ==
    IF f.kind = "reject" THEN Thrown(f.name, f.message, FALSE)
    ELSE IF IsJsonContentType(f.ctype) /\ f.body.json = "invalid"
         THEN Thrown("SyntaxError", "Unexpected token in JSON", FALSE)
    ELSE LET data == IF IsJsonContentType(f.ctype) THEN DataOfJson(f.body)
                     ELSE DataOfText(f.body)
         IN IF ~ResOk(f) THEN Thrown("Error", ErrorMessageOf(f, data), FALSE)
            ELSE Returned(data)

\* A catch that recognises a network failure by its message alone.
IsNetworkFailure_MessageOnly(err) == err.message = "Failed to fetch"

\* err.message === "Failed to fetch" || err.name === "TypeError"
IsNetworkFailure(err) == err.message = "Failed to fetch" \/ err.name = "TypeError"

\* The catch block of apiCall.
ApiCatch(r, suppressLog) ==
    IF r.k # "throw" THEN r
    ELSE IF IsNetworkFailure(r) THEN Thrown("Error", NetworkErrorMessage, ~suppressLog)
    ELSE [r EXCEPT !.logged = ~suppressLog]

apiCall(f, suppressLog) == ApiCatch(ApiTry(f), suppressLog)

(***************************************************************************)
(* The outcomes of fetch the API specification draws from.                 *)
(***************************************************************************)
FieldValues ==
    {JUndefined, JNull, JStr(""), JStr("Invalid credentials"), JStr("Failed to fetch"),
     JNum(0), JNum(42), JObject}

Bodies ==
    {ErrBody(e, m) : e \in FieldValues, m \in FieldValues}
    \cup {NullBody, JsonStringBody("Bad gateway"), JsonStringBody(""),
          TextBody(""), TextBody("Failed to fetch"), TextBody("<html>502</html>")}

Rejections ==
    {Rejection("TypeError", "Failed to fetch"),
     Rejection("TypeError", "Load failed"),
     Rejection("TypeError", "NetworkError when attempting to fetch resource."),
     Rejection("AbortError", "The user aborted a request."),
     Rejection("Error", "Failed to fetch")}

Statuses == {<<200, "OK">>, <<401, "Unauthorized">>, <<500, "Internal Server Error">>}

ContentTypes == {"application/json", "application/json; charset=utf-8", "text/plain", ""}

FetchOutcomes ==
    Rejections
    \cup {Response(s[1], s[2], ct, b) : s \in Statuses, ct \in ContentTypes, b \in Bodies}

(***************************************************************************)
(* JavaScript numbers as the gap-minutes state holds them: an integer or   *)
(* NaN.  Every comparison with NaN is false.                               *)
(***************************************************************************)
Num(n) == [nan |-> FALSE, n |-> n]

NaN == [nan |-> TRUE, n |-> 0]

\* a < b and a > b on numbers
NumLt(a, b) == ~a.nan /\ ~b.nan /\ a.n < b.n

NumGt(a, b) == ~a.nan /\ ~b.nan /\ a.n > b.n

\* JSON.stringify of a number: NaN is written as null
NumToJson(a) == IF a.nan THEN "null" ELSE ToString(a.n)

\* The text of a number field: leading integer digits (has, int) and a tail.
FieldText(has, int, tail) == [has |-> has, int |-> int, tail |-> tail]

\* parseInt: the leading integer of the text, NaN when there is none
parseInt(text) == IF text.has THEN Num(text.int) ELSE NaN

\* A datetime-local value: date, hours:minutes and what follows them.
DateTimeLocal(date, hm, rest) == [date |-> date, hm |-> hm, rest |-> rest]

EmptyDateTime == DateTimeLocal("", "", "")

\* value.replace('T', ' ').substring(0, 16)
FormatDateTime(d) == d.date \o " " \o d.hm

\* `Bearer ${token}`
Bearer(tok) == "Bearer " \o tok.v

NullData == [t |-> "null", v |-> "null", fields |-> NoFields]

\* The replies of the server a panel's request can meet.
PanelReplies ==
    {Response(200, "OK", "application/json", ObjBody(NoFields)),
     Response(500, "Internal Server Error", "application/json",
              ErrBody(JStr("Invalid credentials"), JUndefined)),
     Response(401, "Unauthorized", "text/plain", TextBody("")),
     Rejection("TypeError", "Failed to fetch")}

VARIABLES
    apiIn,      \* the outcome of fetch given to apiCall, or NoFetch
    apiOut,     \* what apiCall returned or threw for apiIn, or NoResult
    token,      \* App: the session token (null when logged out)
    isAdmin,    \* App: the admin flag
    net,        \* the requests in flight
    auth,       \* AuthScreen: its state and the position of handleLoginSubmit
    shell,      \* UserDashboard, UserStats and AdminDashboard: tab and flags
    auto,       \* AutoScheduler: its state and the position of handleSubmit
    sched,      \* ScheduleEmails: its state and the position of handleSubmit
    dom,        \* DomainManager: its state
    storage,    \* localStorage: the two persisted collections
    now,        \* Date.now(), in milliseconds since the page was opened
    mem,        \* the mounted campaign panel's templates and sender profiles
    tab2,       \* the same, for the Schedule panel of a second browser tab
    master,     \* MasterScheduler: its state and the position of handleSchedule
    extract,    \* ExtractEmails: its state and the position of handleExtract
    editor      \* ScheduleEmails: the body editor, its textarea and its timers

vars == <<apiIn, apiOut, token, isAdmin, net, auth, shell, auto, sched, dom,
          storage, now, mem, tab2, master, extract, editor>>

apiVars == <<apiIn, apiOut>>

rootVars == <<token, isAdmin>>

storeVars == <<storage, now>>

ApiIdle ==
    /\ apiIn = NoFetch
    /\ apiOut = NoResult

(***************************************************************************)
(* App: which screen the root renders, and which panel the user console    *)
(* shell has mounted.                                                      *)
(***************************************************************************)
\* A root that looks at the admin flag before the token.
View_AdminFirst == IF isAdmin THEN "admin" ELSE IF ~Truthy(token) THEN "auth" ELSE "user"

\* if (!token) AuthScreen; isAdmin ? AdminDashboard : UserDashboard
View == IF ~Truthy(token) THEN "auth" ELSE IF isAdmin THEN "admin" ELSE "user"

Tabs == {"overview", "schedule", "auto", "master", "domains", "extract"}

CampaignTabs == {"schedule", "auto", "master"}

Mounted(tab) == View = "user" /\ shell.activeTab = tab

(***************************************************************************)
(* Requests in flight.  A request keeps its endpoint, its Authorization    *)
(* header ("" when it has none), its body, the handler awaiting it         *)
(* (owner), the token prop that handler's component was rendered with      *)
(* (tok), and whether that component is still mounted (alive).             *)
(***************************************************************************)
NoBody == [none |-> TRUE]

Request(endpoint, tok, body, owner) ==
    [endpoint |-> endpoint, auth |-> Bearer(tok), tok |-> tok, body |-> body,
     owner |-> owner, alive |-> TRUE]

\* A call without an Authorization header.
PublicRequest(endpoint, body, owner) ==
    [endpoint |-> endpoint, auth |-> "", tok |-> JNull, body |-> body,
     owner |-> owner, alive |-> TRUE]

\* The component that awaits r has been unmounted.
Stale(r) == [r EXCEPT !.alive = FALSE]

\* The handlers that go on to call the API when their request settles.
ContinuingOwners ==
    {"dom.verify", "dom.check", "dom.delete", "logs.single", "logs.bulk", "logs.all",
     "admin.update"}

\* What is left in flight, and still matters, once every mounted component
\* of the set owners is unmounted: a reply to an unmounted component sets no
\* state, so only the requests whose handler calls the API again are kept.
Unmount(requests, owners) ==
    {r \in requests : r.owner \notin owners}
    \cup {Stale(r) : r \in {q \in requests : q.owner \in owners /\ q.owner \in ContinuingOwners}}

PanelOwners ==
    {"stats.usage", "stats.logs", "schedule", "auto", "master", "extract",
     "dom.fetch", "dom.verify",
     "dom.check", "dom.delete", "logs.refresh", "usage.refresh", "logs.single",
     "logs.bulk", "logs.all", "logs.after"}

DashboardOwners ==
    PanelOwners \cup {"health", "admin.users", "admin.usage", "admin.update"}

(***************************************************************************)
(* localStorage and JSON.  A stored collection is absent, or the text      *)
(* JSON.stringify made of a list: one entry per object, each entry the     *)
(* sequence of its <<key, value>> pairs in the order the object lists its  *)
(* keys.  A text with line breaks is the sequence of its lines.            *)
(***************************************************************************)
EmptyText == <<"">>

Absent == [present |-> FALSE, items |-> <<>>]

Stored(items) == [present |-> TRUE, items |-> items]

\* The value of key in a parsed entry.
Field(entry, key) ==
    LET i == CHOOSE j \in 1..Len(entry) : entry[j][1] = key IN entry[i][2]

Template(id, name, subject, body) ==
    [id |-> id, name |-> name, subject |-> subject, body |-> body]

StringifyTemplates(list) ==
    Stored([i \in 1..Len(list) |->
               <<<<"id", list[i].id>>, <<"name", list[i].name>>,
                 <<"subject", list[i].subject>>, <<"body", list[i].body>>>>])

\* if (savedTemplates) setTemplates(JSON.parse(savedTemplates))
ParseTemplates(stored) ==
    IF ~stored.present THEN <<>>
    ELSE [i \in 1..Len(stored.items) |->
             Template(Field(stored.items[i], "id"), Field(stored.items[i], "name"),
                      Field(stored.items[i], "subject"), Field(stored.items[i], "body"))]

Sender(email, password) == [email |-> email, password |-> password]

\* An entry of the in-memory savedSenders list.  row is the index of the
\* senders row that is the very same object (0 when it is no row): editing
\* that row edits the entry.
SavedSender(row, email, password) == [row |-> row, email |-> email, password |-> password]

StringifySenders(list) ==
    Stored([i \in 1..Len(list) |->
               <<<<"email", list[i].email>>, <<"password", list[i].password>>>>])

ParseSenders(stored) ==
    IF ~stored.present THEN <<>>
    ELSE [i \in 1..Len(stored.items) |->
             SavedSender(0, Field(stored.items[i], "email"),
                         Field(stored.items[i], "password"))]

EmptyTemplate == [subject |-> "", body |-> EmptyText, name |-> ""]

\* The campaign panels' useState values before the mount effect.
MemEmpty ==
    [templates |-> <<>>, selectedTemplateId |-> "", template |-> EmptyTemplate,
     savedSenders |-> <<>>, senders |-> <<Sender("", "")>>]

\* The mount effect of a campaign panel; MasterScheduler has no senders.
MemMounted(tab) ==
    IF tab \notin CampaignTabs THEN MemEmpty
    ELSE [MemEmpty EXCEPT
            !.templates = ParseTemplates(storage.emailTemplates),
            !.savedSenders = IF tab = "master" THEN <<>>
                             ELSE ParseSenders(storage.savedSenders)]

(***************************************************************************)
(* ScheduleEmails: the body editor.  The body is looked at character by    *)
(* character here: editor.body is the value of currentTemplate.body, which *)
(* the mounted textarea shows.  el numbers the textarea elements mounted   *)
(* so far and is the one textareaRef.current points to while isPreview is  *)
(* false; selectionStart and selectionEnd are that element's selection.    *)
(* timers holds the callbacks insertTag handed to setTimeout, each with    *)
(* the element and the range it captured.                                  *)
(***************************************************************************)
MaxInserts == 1

MaxMounts == 2

\* The texts the user gives the body, and the places a selection of theirs
\* starts and ends at.
Texts == {<<>>, <<"a", "b", "c">>}

SelectPositions == 0..3

\* The toolbar buttons: insertTag('<b>', '</b>') and insertTag('{domain_name}')
TagButtons ==
    {[tagStart |-> <<"<", "b", ">">>, tagEnd |-> <<"<", "/", "b", ">">>],
     [tagStart |-> <<"{", "d", "o", "m", "a", "i", "n", "_", "n", "a", "m", "e", "}">>,
      tagEnd |-> <<>>]}

EditorInitial ==
    [body |-> <<>>, isPreview |-> FALSE, el |-> 1, selectionStart |-> 0,
     selectionEnd |-> 0, timers |-> <<>>, inserts |-> 0]

Smaller(a, b) == IF a < b THEN a ELSE b

Larger(a, b) == IF a < b THEN b ELSE a

\* An index as String.prototype.substring and setSelectionRange take it:
\* limited to the length of the text.
Clamped(text, i) == Smaller(Larger(i, 0), Len(text))

\* text.substring(a, b): the arguments are clamped, and swapped when a > b.
substring(text, a, b) ==
    SubSeq(text, Smaller(Clamped(text, a), Clamped(text, b)) + 1,
                 Larger(Clamped(text, a), Clamped(text, b)))

\* A toolbar that writes both tags in front of the selection.
insertTag_TagsInFront(text, start, end, tagStart, tagEnd) ==
    substring(text, 0, start) \o tagStart \o tagEnd \o substring(text, start, end)
        \o substring(text, end, Len(text))

\* newText of insertTag: before + tagStart + selection + tagEnd + after
insertTag(text, start, end, tagStart, tagEnd) ==
    substring(text, 0, start) \o tagStart \o substring(text, start, end) \o tagEnd
        \o substring(text, end, Len(text))

EditorMounted == Mounted("schedule")

\* React writes a changed value into the textarea; the browser then puts an
\* empty selection at the end of the text.
Rendered(e, text) ==
    IF e.isPreview \/ text = e.body THEN [e EXCEPT !.body = text]
    ELSE [e EXCEPT !.body = text, !.selectionStart = Len(text), !.selectionEnd = Len(text)]

\* A click on a toolbar button: insertTag up to its setTimeout, and the render
\* that follows.  In preview there is no textarea and insertTag returns.
EditorInsertTag(tg) ==
    /\ EditorMounted
    /\ editor.inserts < MaxInserts
    /\ editor' =
         IF editor.isPreview THEN [editor EXCEPT !.inserts = @ + 1]
         ELSE LET start == editor.selectionStart
                  end == editor.selectionEnd
                  newText == insertTag(editor.body, start, end, tg.tagStart, tg.tagEnd)
              IN [Rendered(editor, newText) EXCEPT
                    !.inserts = @ + 1,
                    !.timers = Append(@, [el |-> editor.el,
                                          start |-> start + Len(tg.tagStart),
                                          end |-> end + Len(tg.tagStart)])]
    /\ UNCHANGED <<apiVars, tab2, master, extract, rootVars, net, auth, shell, auto, sched, dom, storeVars, mem>>

\* The callback of insertTag's setTimeout: textarea.focus() and
\* textarea.setSelectionRange(...) on the element insertTag read, which may
\* have been unmounted since.
EditorTimer ==
    /\ editor.timers # <<>>
    /\ LET h == Head(editor.timers)
       IN editor' =
            IF ~editor.isPreview /\ h.el = editor.el
            THEN [editor EXCEPT !.timers = Tail(@),
                                !.selectionStart = Clamped(editor.body, h.start),
                                !.selectionEnd = Clamped(editor.body, h.end)]
            ELSE [editor EXCEPT !.timers = Tail(@)]
    /\ UNCHANGED <<apiVars, tab2, master, extract, rootVars, net, auth, shell, auto, sched, dom, storeVars, mem>>

\* setIsPreview(!isPreview): the textarea is unmounted, or a new one is
\* mounted with the body as its value.
EditorSetIsPreview ==
    /\ EditorMounted
    /\ editor.isPreview => editor.el < MaxMounts
    /\ editor' =
         IF editor.isPreview
         THEN [editor EXCEPT !.isPreview = FALSE, !.el = @ + 1,
                             !.selectionStart = Len(editor.body),
                             !.selectionEnd = Len(editor.body)]
         ELSE [editor EXCEPT !.isPreview = TRUE, !.selectionStart = 0, !.selectionEnd = 0]
    /\ UNCHANGED <<apiVars, tab2, master, extract, rootVars, net, auth, shell, auto, sched, dom, storeVars, mem>>

\* The user selects a range of the textarea.
EditorSelect(start, end) ==
    /\ EditorMounted
    /\ ~editor.isPreview
    /\ 0 <= start /\ start <= end /\ end <= Len(editor.body)
    /\ editor' = [editor EXCEPT !.selectionStart = start, !.selectionEnd = end]
    /\ UNCHANGED <<apiVars, tab2, master, extract, rootVars, net, auth, shell, auto, sched, dom, storeVars, mem>>

\* onChange of the textarea: the user's edit leaves the text v and the caret
\* at the place of the edit.
EditorChange(v, caret) ==
    /\ EditorMounted
    /\ ~editor.isPreview
    /\ v # editor.body
    /\ caret <= Len(v)
    /\ editor' = [editor EXCEPT !.body = v, !.selectionStart = caret, !.selectionEnd = caret]
    /\ UNCHANGED <<apiVars, tab2, master, extract, rootVars, net, auth, shell, auto, sched, dom, storeVars, mem>>

(***************************************************************************)
(* Templates: the form fields, saveTemplate, deleteTemplate, loadTemplate. *)
(* The three campaign panels carry the same code.                          *)
(***************************************************************************)
MaxTemplates == 2

MaxClock == 1

TemplateNames == {"", "Promo"}

Subjects == {"", "Hi"}

BodyTexts == {EmptyText, <<"Hello">>, <<"Hello", "World">>}

CampaignMounted == View = "user" /\ shell.activeTab \in CampaignTabs

\* The clock advances by a millisecond.
Tick ==
    /\ now < MaxClock
    /\ now' = now + 1
    /\ UNCHANGED <<apiVars, editor, tab2, master, extract, rootVars, net, auth, shell, auto, sched, dom, storage, mem>>

SetTemplateName(v) ==
    /\ CampaignMounted
    /\ mem' = [mem EXCEPT !.template.name = v]
    /\ UNCHANGED <<apiVars, editor, tab2, master, extract, rootVars, net, auth, shell, auto, sched, dom, storeVars>>

SetTemplateSubject(v) ==
    /\ CampaignMounted
    /\ mem' = [mem EXCEPT !.template.subject = v]
    /\ UNCHANGED <<apiVars, editor, tab2, master, extract, rootVars, net, auth, shell, auto, sched, dom, storeVars>>

SetTemplateBody(v) ==
    /\ CampaignMounted
    /\ mem' = [mem EXCEPT !.template.body = v]
    /\ UNCHANGED <<apiVars, editor, tab2, master, extract, rootVars, net, auth, shell, auto, sched, dom, storeVars>>

\* Date.now().toString()
NewTemplateId == ToString(now)

\* A save that keeps the new template alone.
WithNewTemplate_Alone(m) ==
    <<Template(NewTemplateId, m.template.name, m.template.subject, m.template.body)>>

\* [...templates, newTemplate]
WithNewTemplate(m) ==
    Append(m.templates, Template(NewTemplateId, m.template.name,
                                 m.template.subject, m.template.body))

saveTemplate(tab) ==
    /\ Mounted(tab)
    /\ Len(mem.templates) < MaxTemplates
    /\ IF mem.template.name = ""
       THEN UNCHANGED <<mem, storage>>
       ELSE /\ mem' = [mem EXCEPT !.templates = WithNewTemplate(mem),
                                  !.selectedTemplateId = NewTemplateId]
            /\ storage' = [storage EXCEPT
                             !.emailTemplates = StringifyTemplates(WithNewTemplate(mem))]
    /\ UNCHANGED <<apiVars, editor, tab2, master, extract, rootVars, net, auth, shell, auto, sched, dom, now>>

ScheduleSaveTemplate == saveTemplate("schedule")

AutoSaveTemplate == saveTemplate("auto")

MasterSaveTemplate == saveTemplate("master")

\* templates.filter(t => t.id !== id)
RECURSIVE WithoutTemplate(_, _)
WithoutTemplate(list, id) ==
    IF list = <<>> THEN <<>>
    ELSE (IF list[1].id # id THEN <<list[1]>> ELSE <<>>) \o WithoutTemplate(Tail(list), id)

\* The delete button is shown while a template is selected.
deleteTemplate(tab) ==
    /\ Mounted(tab)
    /\ mem.selectedTemplateId # ""
    /\ mem' = [mem EXCEPT
                 !.templates = WithoutTemplate(@, mem.selectedTemplateId),
                 !.selectedTemplateId = "",
                 !.template = [name |-> "", subject |-> "", body |-> EmptyText]]
    /\ storage' = [storage EXCEPT !.emailTemplates =
                     StringifyTemplates(WithoutTemplate(mem.templates, mem.selectedTemplateId))]
    /\ UNCHANGED <<apiVars, editor, tab2, master, extract, rootVars, net, auth, shell, auto, sched, dom, now>>

ScheduleDeleteTemplate == deleteTemplate("schedule")

AutoDeleteTemplate == deleteTemplate("auto")

MasterDeleteTemplate == deleteTemplate("master")

\* templates.find(t => t.id === id): the first template with that id
FindTemplate(list, id) ==
    LET hits == {i \in 1..Len(list) : list[i].id = id}
    IN IF hits = {} THEN 0 ELSE CHOOSE i \in hits : \A j \in hits : i <= j

\* The dropdown offers "" and the id of every template of the list.
loadTemplate(tab, id) ==
    /\ Mounted(tab)
    /\ id = "" \/ FindTemplate(mem.templates, id) # 0
    /\ mem' = [mem EXCEPT
                 !.selectedTemplateId = id,
                 !.template = IF FindTemplate(mem.templates, id) = 0 THEN @
                              ELSE LET t == mem.templates[FindTemplate(mem.templates, id)]
                                   IN [name |-> t.name, subject |-> t.subject, body |-> t.body]]
    /\ UNCHANGED <<apiVars, editor, tab2, master, extract, rootVars, net, auth, shell, auto, sched, dom, storeVars>>

ScheduleLoadTemplate(id) == loadTemplate("schedule", id)

AutoLoadTemplate(id) == loadTemplate("auto", id)

MasterLoadTemplate(id) == loadTemplate("master", id)

TemplateIds == {""} \cup {ToString(n) : n \in 0..(MaxClock + 1)}

(***************************************************************************)
(* Saved sender profiles.  ScheduleEmails edits a sender row in place      *)
(* (newSenders[idx].email = ...) and saveSenderProfile stores the row      *)
(* object itself in savedSenders; AutoScheduler replaces its sender by a   *)
(* copy on every edit.                                                     *)
(***************************************************************************)
MaxSenders == 2

MaxSavedSenders == 2

SenderEmails == {"", "a@b.com", "c@d.com"}

SenderPasswords == {"", "x"}

\* savedSenders.findIndex(s => s.email === email), 0 when there is none
FindSender(list, email) ==
    LET hits == {i \in 1..Len(list) : list[i].email = email}
    IN IF hits = {} THEN 0 ELSE CHOOSE i \in hits : \A j \in hits : i <= j

\* existingIndex >= 0 ? replace at that index : append
Upsert(list, entry) ==
    IF FindSender(list, entry.email) = 0 THEN Append(list, entry)
    ELSE [list EXCEPT ![FindSender(list, entry.email)] = entry]

\* savedSenders.filter(s => s.email !== email)
RECURSIVE WithoutSender(_, _)
WithoutSender(list, email) ==
    IF list = <<>> THEN <<>>
    ELSE (IF list[1].email # email THEN <<list[1]>> ELSE <<>>)
         \o WithoutSender(Tail(list), email)

\* The entries that are the object of row i see the edit of that row.
EditRow(m, i, row) ==
    [m EXCEPT !.senders[i] = row,
              !.savedSenders = [k \in 1..Len(@) |->
                                  IF @[k].row = i THEN SavedSender(i, row.email, row.password)
                                  ELSE @[k]]]

\* Row i is replaced by another object, or leaves the list of rows: the
\* entries that were that object keep its values; later rows move up by
\* shift.
DetachRow(saved, i, shift) ==
    [k \in 1..Len(saved) |->
        IF saved[k].row = i THEN [saved[k] EXCEPT !.row = 0]
        ELSE IF saved[k].row > i THEN [saved[k] EXCEPT !.row = @ - shift]
        ELSE saved[k]]

ScheduleSetSenderEmail(i, v) ==
    /\ Mounted("schedule")
    /\ i \in 1..Len(mem.senders)
    /\ mem' = EditRow(mem, i, [mem.senders[i] EXCEPT !.email = v])
    /\ UNCHANGED <<apiVars, editor, tab2, master, extract, rootVars, net, auth, shell, auto, sched, dom, storeVars>>

ScheduleSetSenderPassword(i, v) ==
    /\ Mounted("schedule")
    /\ i \in 1..Len(mem.senders)
    /\ mem' = EditRow(mem, i, [mem.senders[i] EXCEPT !.password = v])
    /\ UNCHANGED <<apiVars, editor, tab2, master, extract, rootVars, net, auth, shell, auto, sched, dom, storeVars>>

\* setSenders([...senders, { email: '', password: '' }])
ScheduleAddSender ==
    /\ Mounted("schedule")
    /\ Len(mem.senders) < MaxSenders
    /\ mem' = [mem EXCEPT !.senders = Append(@, Sender("", ""))]
    /\ UNCHANGED <<apiVars, editor, tab2, master, extract, rootVars, net, auth, shell, auto, sched, dom, storeVars>>

\* setSenders(senders.filter((_, i) => i !== idx)), offered with two rows or more
ScheduleRemoveSender(i) ==
    /\ Mounted("schedule")
    /\ Len(mem.senders) > 1
    /\ i \in 1..Len(mem.senders)
    /\ mem' = [mem EXCEPT
                 !.senders = SubSeq(@, 1, i - 1) \o SubSeq(@, i + 1, Len(@)),
                 !.savedSenders = DetachRow(@, i, 1)]
    /\ UNCHANGED <<apiVars, editor, tab2, master, extract, rootVars, net, auth, shell, auto, sched, dom, storeVars>>

\* "Load Saved...": newSenders[idx] = { ...selected }
ScheduleLoadSavedSender(i, email) ==
    /\ Mounted("schedule")
    /\ i \in 1..Len(mem.senders)
    /\ FindSender(mem.savedSenders, email) # 0
    /\ LET selected == mem.savedSenders[FindSender(mem.savedSenders, email)] IN
        mem' = [mem EXCEPT
                  !.senders[i] = Sender(selected.email, selected.password),
                  !.savedSenders = DetachRow(@, i, 0)]
    /\ UNCHANGED <<apiVars, editor, tab2, master, extract, rootVars, net, auth, shell, auto, sched, dom, storeVars>>

\* The list saveSenderProfile(entry) makes of the in-memory list.
SavedWith(m, entry) ==
    IF entry.email = "" THEN m.savedSenders ELSE Upsert(m.savedSenders, entry)

saveSenderProfile(entry) ==
    /\ Len(SavedWith(mem, entry)) <= MaxSavedSenders
    /\ IF entry.email = ""
       THEN UNCHANGED <<mem, storage>>
       ELSE /\ mem' = [mem EXCEPT !.savedSenders = SavedWith(mem, entry)]
            /\ storage' = [storage EXCEPT
                             !.savedSenders = StringifySenders(SavedWith(mem, entry))]
    /\ UNCHANGED <<apiVars, editor, tab2, master, extract, rootVars, net, auth, shell, auto, sched, dom, now>>

\* The Save button of row i: saveSenderProfile(sender), the row object itself
ScheduleSaveSenderProfile(i) ==
    /\ Mounted("schedule")
    /\ i \in 1..Len(mem.senders)
    /\ saveSenderProfile(SavedSender(i, mem.senders[i].email, mem.senders[i].password))

deleteSavedSender(email) ==
    /\ Mounted("schedule")
    /\ FindSender(mem.savedSenders, email) # 0
    /\ mem' = [mem EXCEPT !.savedSenders = WithoutSender(@, email)]
    /\ storage' = [storage EXCEPT !.savedSenders =
                     StringifySenders(WithoutSender(mem.savedSenders, email))]
    /\ UNCHANGED <<apiVars, editor, tab2, master, extract, rootVars, net, auth, shell, auto, sched, dom, now>>

\* setSender({...sender, email: v}): a new object, the saved entries stay
AutoSetSenderEmail(v) ==
    /\ Mounted("auto")
    /\ mem' = [mem EXCEPT !.senders[1].email = v]
    /\ UNCHANGED <<apiVars, editor, tab2, master, extract, rootVars, net, auth, shell, auto, sched, dom, storeVars>>

AutoSetSenderPassword(v) ==
    /\ Mounted("auto")
    /\ mem' = [mem EXCEPT !.senders[1].password = v]
    /\ UNCHANGED <<apiVars, editor, tab2, master, extract, rootVars, net, auth, shell, auto, sched, dom, storeVars>>

\* setSender({ email: selected.email, password: selected.password || '' })
AutoLoadSavedSender(email) ==
    /\ Mounted("auto")
    /\ FindSender(mem.savedSenders, email) # 0
    /\ LET selected == mem.savedSenders[FindSender(mem.savedSenders, email)] IN
        mem' = [mem EXCEPT !.senders[1] = Sender(selected.email, selected.password)]
    /\ UNCHANGED <<apiVars, editor, tab2, master, extract, rootVars, net, auth, shell, auto, sched, dom, storeVars>>

AutoSaveSenderProfile ==
    /\ Mounted("auto")
    /\ saveSenderProfile(SavedSender(0, mem.senders[1].email, mem.senders[1].password))

(***************************************************************************)
(* ScheduleEmails: the receivers form and handleSubmit.                    *)
(***************************************************************************)
RECURSIVE JoinLines(_, _)
JoinLines(lines, sep) ==
    IF Len(lines) = 1 THEN lines[1]
    ELSE lines[1] \o sep \o JoinLines(Tail(lines), sep)

\* `<html><body>${body.replace(/\n/g, '<br/>')}</body></html>`
HtmlEnvelope(body) == "<html><body>" \o JoinLines(body, "<br/>") \o "</body></html>"

Receiver(mail, when) == [receiverMail |-> mail, scheduledDateTime |-> when]

EmptyReceiver == Receiver("", EmptyDateTime)

NoMsg == [type |-> "none", text |-> ""]

\* The state a freshly mounted ScheduleEmails starts with (its useState calls).
SchedInitial ==
    [mode |-> "manual", receivers |-> <<EmptyReceiver>>, csvFile |-> FALSE,
     loading |-> FALSE, responseMsg |-> NoMsg, pc |-> "idle", payload |-> NoBody]

MaxReceivers == 2

ReceiverMails == {"", "r@example.com"}

ReceiverTimes == {EmptyDateTime, DateTimeLocal("2026-01-01", "10:00", "")}

SchedSetMode(m) ==
    /\ Mounted("schedule")
    /\ sched' = [sched EXCEPT !.mode = m]
    /\ UNCHANGED <<apiVars, editor, tab2, master, extract, rootVars, net, auth, shell, auto, dom, storeVars, mem>>

SchedSetCsvFile(f) ==
    /\ Mounted("schedule")
    /\ sched.mode = "csv"
    /\ sched' = [sched EXCEPT !.csvFile = f]
    /\ UNCHANGED <<apiVars, editor, tab2, master, extract, rootVars, net, auth, shell, auto, dom, storeVars, mem>>

\* The receiver rows are shown in manual mode only.
SchedSetReceiverMail(i, v) ==
    /\ Mounted("schedule")
    /\ sched.mode = "manual"
    /\ i \in 1..Len(sched.receivers)
    /\ sched' = [sched EXCEPT !.receivers[i].receiverMail = v]
    /\ UNCHANGED <<apiVars, editor, tab2, master, extract, rootVars, net, auth, shell, auto, dom, storeVars, mem>>

SchedSetReceiverTime(i, v) ==
    /\ Mounted("schedule")
    /\ sched.mode = "manual"
    /\ i \in 1..Len(sched.receivers)
    /\ sched' = [sched EXCEPT !.receivers[i].scheduledDateTime = v]
    /\ UNCHANGED <<apiVars, editor, tab2, master, extract, rootVars, net, auth, shell, auto, dom, storeVars, mem>>

SchedAddReceiver ==
    /\ Mounted("schedule")
    /\ sched.mode = "manual"
    /\ Len(sched.receivers) < MaxReceivers
    /\ sched' = [sched EXCEPT !.receivers = Append(@, EmptyReceiver)]
    /\ UNCHANGED <<apiVars, editor, tab2, master, extract, rootVars, net, auth, shell, auto, dom, storeVars, mem>>

\* receivers.filter((_, i) => i !== idx), offered with two rows or more
SchedRemoveReceiver(i) ==
    /\ Mounted("schedule")
    /\ sched.mode = "manual"
    /\ Len(sched.receivers) > 1
    /\ i \in 1..Len(sched.receivers)
    /\ sched' = [sched EXCEPT !.receivers =
                     SubSeq(@, 1, i - 1) \o SubSeq(@, i + 1, Len(@))]
    /\ UNCHANGED <<apiVars, editor, tab2, master, extract, rootVars, net, auth, shell, auto, dom, storeVars, mem>>

\* r => r.receiverMail && r.scheduledDateTime
ValidReceiver(r) == r.receiverMail # "" /\ r.scheduledDateTime # EmptyDateTime

\* receivers.filter(valid).map(...): the rows sent, with normalized timestamps
RECURSIVE ValidReceivers(_)
ValidReceivers(rows) ==
    IF rows = <<>> THEN <<>>
    ELSE (IF ValidReceiver(rows[1])
          THEN <<[receiverMail |-> rows[1].receiverMail,
                  scheduledDateTime |-> FormatDateTime(rows[1].scheduledDateTime)]>>
          ELSE <<>>) \o ValidReceivers(Tail(rows))

\* senders.map(s => ({ senderMail: s.email, smtp_password: s.password || "" }))
FormattedSenders(rows) ==
    [i \in 1..Len(rows) |-> [senderMail |-> rows[i].email, smtp_password |-> rows[i].password]]

SchedPayload(p, m) ==
    [senders |-> FormattedSenders(m.senders),
     subject |-> m.template.subject, body |-> HtmlEnvelope(m.template.body),
     mode |-> p.mode,
     receivers |-> IF p.mode = "manual" THEN ValidReceivers(p.receivers) ELSE <<>>]

SchedRequest(payload) == Request("/scheduleEmails", token, payload, "schedule")

\* A catch whose finally does not clear the loading flag.
SchedError_KeepsLoading(p, text) ==
    [p EXCEPT !.pc = "idle", !.payload = NoBody,
              !.responseMsg = [type |-> "error", text |-> text]]

\* catch and finally of handleSubmit: the error message, loading cleared
SchedError(p, text) ==
    [p EXCEPT !.loading = FALSE, !.pc = "idle", !.payload = NoBody,
              !.responseMsg = [type |-> "error", text |-> text]]

\* A pre-flight check that looks at the receivers before the template.
SchedPreflight_ReceiversFirst(p, m) ==
    IF p.mode = "manual" /\ ValidReceivers(p.receivers) = <<>>
        THEN "Please add at least one valid receiver with a date."
    ELSE IF p.mode # "manual" /\ ~p.csvFile THEN "Please upload a CSV file."
    ELSE ""

\* The pre-flight checks of handleSubmit, in the order the code makes them:
\* the text of the error thrown, or "" when the request goes ahead.
SchedPreflight(p, m) ==
    IF m.template.subject = "" \/ m.template.body = EmptyText THEN "Template required."
    ELSE IF p.mode = "manual" /\ ValidReceivers(p.receivers) = <<>>
        THEN "Please add at least one valid receiver with a date."
    ELSE IF p.mode # "manual" /\ ~p.csvFile THEN "Please upload a CSV file."
    ELSE ""

\* handleSubmit up to its first await.
SchedHandleSubmit ==
    /\ Mounted("schedule")
    /\ ~sched.loading
    /\ IF SchedPreflight(sched, mem) # ""
       THEN /\ sched' = SchedError(sched, SchedPreflight(sched, mem))
            /\ UNCHANGED net
       ELSE IF sched.mode = "manual"
       THEN /\ sched' = [sched EXCEPT !.loading = TRUE, !.pc = "calling",
                                       !.responseMsg = NoMsg,
                                       !.payload = SchedPayload(sched, mem)]
            /\ net' = net \cup {SchedRequest(SchedPayload(sched, mem))}
       ELSE /\ sched' = [sched EXCEPT !.loading = TRUE, !.pc = "reading",
                                       !.responseMsg = NoMsg,
                                       !.payload = SchedPayload(sched, mem)]
            /\ UNCHANGED net
    /\ UNCHANGED <<apiVars, editor, tab2, master, extract, rootVars, auth, shell, auto, dom, storeVars, mem>>

\* fileToBase64 resolves: the request is sent.
SchedFileLoaded ==
    /\ Mounted("schedule")
    /\ sched.pc = "reading"
    /\ sched' = [sched EXCEPT !.pc = "calling"]
    /\ net' = net \cup {SchedRequest(sched.payload)}
    /\ UNCHANGED <<apiVars, editor, tab2, master, extract, rootVars, auth, shell, auto, dom, storeVars, mem>>

\* fileToBase64 rejects with the reader's event, which has no message.
SchedFileError ==
    /\ Mounted("schedule")
    /\ sched.pc = "reading"
    /\ sched' = SchedError(sched, "undefined")
    /\ UNCHANGED <<apiVars, editor, tab2, master, extract, rootVars, net, auth, shell, auto, dom, storeVars, mem>>

\* `${data.message || 'Success!'} ${...}` of a reply without scheduled_count
SuccessText(data) ==
    OrOr(IF data.t = "object" THEN data.fields.message ELSE JUndefined,
         JStr("Success!")).v \o " "

\* The request settles: the success message, or the error's; finally.
SchedReply(f) ==
    /\ sched.pc = "calling"
    /\ \E r \in net :
        /\ r.owner = "schedule" /\ r.alive
        /\ sched' = IF apiCall(f, FALSE).k = "return" /\ apiCall(f, FALSE).data.t # "null"
                    THEN [sched EXCEPT !.loading = FALSE, !.pc = "idle", !.payload = NoBody,
                                       !.responseMsg = [type |-> "success",
                                                        text |-> SuccessText(apiCall(f, FALSE).data)]]
                    ELSE IF apiCall(f, FALSE).k = "return"
                    THEN SchedError(sched, "Cannot read properties of null (reading 'message')")
                    ELSE SchedError(sched, apiCall(f, FALSE).message)
        /\ net' = net \ {r}
    /\ UNCHANGED <<apiVars, editor, tab2, master, extract, rootVars, auth, shell, auto, dom, storeVars, mem>>

(***************************************************************************)
(* AutoScheduler: the timing form and handleSubmit.                        *)
(***************************************************************************)
AutoModes == {"manual", "receiver_csv", "full_csv"}

\* The state a freshly mounted AutoScheduler starts with (its useState calls).
AutoInitial ==
    [startDateTime |-> EmptyDateTime, gapMinutes |-> Num(5),
     mode |-> "manual", csvFile |-> FALSE, loading |-> FALSE,
     error |-> JNull, result |-> NullData, pc |-> "idle", payload |-> NoBody]

\* What the user can type into the two timing fields.
GapTexts ==
    {FieldText(FALSE, 0, ""), FieldText(FALSE, 0, "e"),
     FieldText(TRUE, 1, ".5"), FieldText(TRUE, 60, ".9")}
    \cup {FieldText(TRUE, n, "") : n \in {-1, 0, 1, 2, 59, 60, 61, 100}}

StartDateTimes ==
    {EmptyDateTime, DateTimeLocal("2026-01-01", "10:00", ""),
     DateTimeLocal("2026-01-01", "10:00", ":30")}

AutoSetStartDateTime(v) ==
    /\ Mounted("auto")
    /\ auto' = [auto EXCEPT !.startDateTime = v]
    /\ UNCHANGED <<apiVars, editor, tab2, master, extract, rootVars, net, auth, shell, sched, dom, storeVars, mem>>

\* onChange of the gap field: setGapMinutes(parseInt(e.target.value))
AutoSetGapMinutes(text) ==
    /\ Mounted("auto")
    /\ auto' = [auto EXCEPT !.gapMinutes = parseInt(text)]
    /\ UNCHANGED <<apiVars, editor, tab2, master, extract, rootVars, net, auth, shell, sched, dom, storeVars, mem>>

AutoSetMode(m) ==
    /\ Mounted("auto")
    /\ auto' = [auto EXCEPT !.mode = m]
    /\ UNCHANGED <<apiVars, editor, tab2, master, extract, rootVars, net, auth, shell, sched, dom, storeVars, mem>>

AutoSetCsvFile(f) ==
    /\ Mounted("auto")
    /\ auto' = [auto EXCEPT !.csvFile = f]
    /\ UNCHANGED <<apiVars, editor, tab2, master, extract, rootVars, net, auth, shell, sched, dom, storeVars, mem>>

\* gapMinutes < 1 || gapMinutes > 60
AutoGapOutOfRange(g) == NumLt(g, Num(1)) \/ NumGt(g, Num(60))

AutoPayload(a) ==
    [startDateTime |-> FormatDateTime(a.startDateTime),
     gapMinutes |-> NumToJson(a.gapMinutes),
     mode |-> a.mode]

AutoRequest(payload) == Request("/scheduleEmails/auto", token, payload, "auto")

\* handleSubmit up to its first await.
AutoHandleSubmit ==
    /\ Mounted("auto")
    /\ ~auto.loading
    /\ IF auto.startDateTime = EmptyDateTime
       THEN /\ auto' = [auto EXCEPT !.error = JStr("Start Date & Time is required")]
            /\ UNCHANGED net
       ELSE IF AutoGapOutOfRange(auto.gapMinutes)
       THEN /\ auto' = [auto EXCEPT !.error = JStr("Gap Minutes must be between 1 and 60")]
            /\ UNCHANGED net
       ELSE IF auto.mode = "manual"
       THEN /\ auto' = [auto EXCEPT !.loading = TRUE, !.error = JNull, !.result = NullData,
                                     !.pc = "calling", !.payload = AutoPayload(auto)]
            /\ net' = net \cup {AutoRequest(AutoPayload(auto))}
       ELSE IF ~auto.csvFile
       THEN /\ auto' = [auto EXCEPT !.loading = FALSE, !.result = NullData,
                                     !.error = IF auto.mode = "receiver_csv"
                                               THEN JStr("Please upload receivers CSV")
                                               ELSE JStr("Please upload full CSV")]
            /\ UNCHANGED net
       ELSE /\ auto' = [auto EXCEPT !.loading = TRUE, !.error = JNull, !.result = NullData,
                                     !.pc = "reading", !.payload = AutoPayload(auto)]
            /\ UNCHANGED net
    /\ UNCHANGED <<apiVars, editor, tab2, master, extract, rootVars, auth, shell, sched, dom, storeVars, mem>>

\* fileToBase64 resolves: the request is sent.
AutoFileLoaded ==
    /\ Mounted("auto")
    /\ auto.pc = "reading"
    /\ auto' = [auto EXCEPT !.pc = "calling"]
    /\ net' = net \cup {AutoRequest(auto.payload)}
    /\ UNCHANGED <<apiVars, editor, tab2, master, extract, rootVars, auth, shell, sched, dom, storeVars, mem>>

\* fileToBase64 rejects with the reader's event, which has no message.
AutoFileError ==
    /\ Mounted("auto")
    /\ auto.pc = "reading"
    /\ auto' = [auto EXCEPT !.pc = "idle", !.payload = NoBody,
                             !.error = JUndefined, !.loading = FALSE]
    /\ UNCHANGED <<apiVars, editor, tab2, master, extract, rootVars, net, auth, shell, sched, dom, storeVars, mem>>

\* The request settles: setResult(data), or setError(err.message); finally.
AutoReply(f) ==
    /\ auto.pc = "calling"
    /\ \E r \in net :
        /\ r.owner = "auto" /\ r.alive
        /\ auto' = IF apiCall(f, FALSE).k = "return"
                   THEN [auto EXCEPT !.pc = "idle", !.payload = NoBody,
                                     !.result = apiCall(f, FALSE).data, !.loading = FALSE]
                   ELSE [auto EXCEPT !.pc = "idle", !.payload = NoBody,
                                     !.error = JStr(apiCall(f, FALSE).message),
                                     !.loading = FALSE]
        /\ net' = net \ {r}
    /\ UNCHANGED <<apiVars, editor, tab2, master, extract, rootVars, auth, shell, sched, dom, storeVars, mem>>

(***************************************************************************)
(* DomainManager.  The text of the email field is kept as the sequence     *)
(* newEmail.split('@') makes of it: "" is <<"">>, "user@x.com" is          *)
(* <<"user", "x.com">>.                                                    *)
(***************************************************************************)
DomInitial ==
    [newEmail |-> <<"">>, loading |-> FALSE, msg |-> NoMsg,
     verificationData |-> NullData, domains |-> <<>>,
     checkingDomain |-> "", deletingDomain |-> ""]

blockedDomains ==
    {"gmail.com", "yahoo.com", "outlook.com", "hotmail.com", "icloud.com",
     "aol.com", "live.com", "msn.com"}

\* String.prototype.toLowerCase on the domains the user types
toLowerCase(s) ==
    CASE s = "GMAIL.COM" -> "gmail.com"
      [] s = "Yahoo.Com" -> "yahoo.com"
      [] s = "CustomDomain.com" -> "customdomain.com"
      [] OTHER -> s

\* What the user can type into the email field.
NewEmails ==
    {<<"">>, <<"user">>, <<"user", "">>, <<"", "gmail.com">>}
    \cup {<<"user", d>> : d \in blockedDomains}
    \cup {<<"user", d>> : d \in {"GMAIL.COM", "Yahoo.Com", "customdomain.com",
                               "CustomDomain.com", "mail.gmail.com", "gmail.com.example.org"}}
    \cup {<<"\"a", "b\"", "gmail.com">>, <<"a", "customdomain.com", "gmail.com">>}

DomainLists ==
    {<<>>, <<[domain |-> "customdomain.com", status |-> "pending"]>>}

\* The replies of the server the domain endpoints can meet.
DomainReplies ==
    {Response(200, "OK", "application/json",
              ObjBody([NoFields EXCEPT !.status = JStr(s), !.domain = JStr(d)]))
        : s \in {"verified", "pending"}, d \in {"customdomain.com"}}
    \cup {Response(200, "OK", "application/json", ObjBody([NoFields EXCEPT !.domains = l]))
            : l \in DomainLists}
    \cup {Response(500, "Internal Server Error", "application/json",
                   ErrBody(JStr("Verification failed"), JUndefined)),
          Rejection("TypeError", "Failed to fetch")}

DomSetNewEmail(v) ==
    /\ Mounted("domains")
    /\ dom' = [dom EXCEPT !.newEmail = v]
    /\ UNCHANGED <<apiVars, editor, tab2, master, extract, rootVars, net, auth, shell, auto, sched, storeVars, mem>>

DomFetchRequest(tok) == Request("/domains", tok, NoBody, "dom.fetch")

\* emailParts[1] of a split with two parts or more
emailDomain(emailParts) == emailParts[2]

PublicDomainMsg ==
    [type |-> "error",
     text |-> "Public email domains (Gmail, Yahoo, etc.) cannot be verified. Please use a custom domain you own."]

\* handleRequestVerification up to its await; the button is disabled while
\* loading.
DomHandleRequestVerification ==
    /\ Mounted("domains")
    /\ ~dom.loading
    /\ IF dom.newEmail = <<"">>
       THEN UNCHANGED <<dom, net>>
       ELSE IF Len(dom.newEmail) < 2
       THEN /\ dom' = [dom EXCEPT !.msg = [type |-> "error", text |-> "Invalid email format"]]
            /\ UNCHANGED net
       ELSE IF toLowerCase(emailDomain(dom.newEmail)) \in blockedDomains
       THEN /\ dom' = [dom EXCEPT !.msg = PublicDomainMsg]
            /\ UNCHANGED net
       ELSE /\ dom' = [dom EXCEPT !.loading = TRUE, !.msg = NoMsg,
                                  !.verificationData = NullData]
            /\ net' = net \cup {Request("/domains/request-verification", token,
                                        [sender_email |-> dom.newEmail], "dom.verify")}
    /\ UNCHANGED <<apiVars, editor, tab2, master, extract, rootVars, auth, shell, auto, sched, storeVars, mem>>

\* Reading a property of null or undefined throws a TypeError.
ReadThrows(data) == data.t \in {"null", "undefined"}

\* data.status === 'verified'
IsVerified(data) == data.t = "object" /\ data.fields.status = JStr("verified")

\* A handler that makes no further call once its request settles.
FollowUps_None(r, res) == {}

\* The calls the handler awaiting r makes once r settles with res; they are
\* made whether or not the component is still mounted, with the token the
\* handler was created with.
FollowUps(r, res) ==
    IF r.owner \in {"dom.verify", "dom.check"} /\ res.k = "return" /\ IsVerified(res.data)
        THEN {[DomFetchRequest(r.tok) EXCEPT !.alive = r.alive]}
    ELSE IF r.owner = "dom.delete" /\ res.k = "return"
        THEN {[DomFetchRequest(r.tok) EXCEPT !.alive = r.alive]}
    ELSE IF r.owner \in {"logs.single", "logs.bulk", "logs.all"} /\ res.k = "return"
        THEN {[Request("/emails/logs", r.tok, NoBody, "logs.after") EXCEPT !.alive = r.alive]}
    ELSE IF r.owner = "admin.update" /\ res.k = "return"
        THEN {[Request("/admin/users", r.tok, NoBody, "admin.users") EXCEPT !.alive = r.alive],
              [Request("/admin/email-usage", r.tok, NoBody, "admin.usage")
                  EXCEPT !.alive = r.alive]}
    ELSE {}

\* The panels' mounted handlers settle their requests one at a time.
Settle(r, f) == (net \ {r}) \cup FollowUps(r, apiCall(f, FALSE))

Awaited(r, owner) == r \in net /\ r.owner = owner /\ r.alive

\* fetchDomains settles: setDomains(data.domains || []), or the error is logged.
DomFetchReply(r, f) ==
    /\ Awaited(r, "dom.fetch")
    /\ dom' = IF apiCall(f, FALSE).k = "return" /\ ~ReadThrows(apiCall(f, FALSE).data)
              THEN [dom EXCEPT !.domains = apiCall(f, FALSE).data.fields.domains]
              ELSE dom
    /\ net' = Settle(r, f)
    /\ UNCHANGED <<apiVars, editor, tab2, master, extract, rootVars, auth, shell, auto, sched, storeVars, mem>>

\* handleRequestVerification after its await.
DomVerifyReply(r, f) ==
    /\ Awaited(r, "dom.verify")
    /\ LET res == apiCall(f, FALSE) IN
        dom' = IF res.k # "return"
               THEN [dom EXCEPT !.loading = FALSE,
                                !.msg = [type |-> "error", text |-> res.message]]
               ELSE IF ReadThrows(res.data)
               THEN [dom EXCEPT !.loading = FALSE, !.verificationData = res.data,
                                !.msg = [type |-> "error",
                                         text |-> "Cannot read properties of null (reading 'status')"]]
               ELSE IF IsVerified(res.data)
               THEN [dom EXCEPT !.loading = FALSE, !.verificationData = res.data,
                                !.msg = [type |-> "success", text |-> "Domain already verified!"]]
               ELSE [dom EXCEPT !.loading = FALSE, !.verificationData = res.data]
    /\ net' = Settle(r, f)
    /\ UNCHANGED <<apiVars, editor, tab2, master, extract, rootVars, auth, shell, auto, sched, storeVars, mem>>

\* The domains a Check or Delete button is shown for.
ListedDomains ==
    {dom.domains[i].domain :
        i \in {j \in 1..Len(dom.domains) :
                  dom.domains[j].status \in {"pending", "verification_required"}}}

\* verificationData?.domain === domain
ShowsDomain(d) ==
    dom.verificationData.t = "object" /\ dom.verificationData.fields.domain = JStr(d)

\* checkStatus(domain) up to its await; the row's button is disabled while
\* that domain is being checked.
DomCheckStatus(d) ==
    /\ Mounted("domains")
    /\ d \in ListedDomains
    /\ dom.checkingDomain # d
    /\ dom' = [dom EXCEPT !.checkingDomain = d]
    /\ net' = net \cup {Request("/domains/check-status", token,
                                [domain |-> d, shown |-> ShowsDomain(d)], "dom.check")}
    /\ UNCHANGED <<apiVars, editor, tab2, master, extract, rootVars, auth, shell, auto, sched, storeVars, mem>>

\* checkStatus after its await: alert, fetchDomains() when verified; finally.
DomCheckReply(r, f) ==
    /\ Awaited(r, "dom.check")
    /\ LET res == apiCall(f, FALSE) IN
        dom' = IF res.k = "return" /\ IsVerified(res.data) /\ r.body.shown
               THEN [dom EXCEPT !.checkingDomain = "", !.verificationData = NullData]
               ELSE [dom EXCEPT !.checkingDomain = ""]
    /\ net' = Settle(r, f)
    /\ UNCHANGED <<apiVars, editor, tab2, master, extract, rootVars, auth, shell, auto, sched, storeVars, mem>>

\* handleDeleteDomain(domain) once window.confirm is accepted
DomHandleDeleteDomain(d) ==
    /\ Mounted("domains")
    /\ d \in ListedDomains
    /\ dom.deletingDomain # d
    /\ dom' = [dom EXCEPT !.deletingDomain = d]
    /\ net' = net \cup {Request("/domains", token, [domain |-> d], "dom.delete")}
    /\ UNCHANGED <<apiVars, editor, tab2, master, extract, rootVars, auth, shell, auto, sched, storeVars, mem>>

DomDeleteReply(r, f) ==
    /\ Awaited(r, "dom.delete")
    /\ dom' = IF apiCall(f, FALSE).k = "return"
              THEN [dom EXCEPT !.deletingDomain = "",
                               !.msg = [type |-> "success",
                                        text |-> "Domain " \o r.body.domain \o " removed successfully"]]
              ELSE [dom EXCEPT !.deletingDomain = ""]
    /\ net' = Settle(r, f)
    /\ UNCHANGED <<apiVars, editor, tab2, master, extract, rootVars, auth, shell, auto, sched, storeVars, mem>>

\* A request settles whose component is gone: no state is set, but the
\* handler runs on and makes its next calls.
StaleReply(r, f) ==
    /\ r \in net
    /\ ~r.alive
    /\ net' = Settle(r, f)
    /\ UNCHANGED <<apiVars, editor, tab2, master, extract, rootVars, auth, shell, auto, sched, dom, storeVars, mem>>

(***************************************************************************)
(* MasterScheduler and ExtractEmails: the file and handleSchedule,         *)
(* handleExtract.  Both read the file before they call the API.            *)
(***************************************************************************)
\* The state a freshly mounted MasterScheduler starts with (its useState
\* calls); uncaught tells whether the last call of the handler ended with an
\* error thrown out of its catch block.
MasterInitial ==
    [csvFile |-> FALSE, loading |-> FALSE, error |-> JNull, result |-> NullData,
     pc |-> "idle", uncaught |-> FALSE]

\* The state a freshly mounted ExtractEmails starts with (its useState calls).
ExtractInitial ==
    [csvFile |-> FALSE, loading |-> FALSE, error |-> JNull, resultBase64 |-> JNull,
     pc |-> "idle", uncaught |-> FALSE]

\* The messages of the server for which err.message.includes("Access Expired")
AccessExpiredMessages == {"Access Expired", "Your Access Expired on 2026-01-01"}

\* The text the catch of handleSchedule and handleExtract sets as the error
CaughtText(message, fallback) ==
    IF message \in AccessExpiredMessages THEN "Access Expired. Please contact admin."
    ELSE IF message = "" THEN fallback
    ELSE message

MasterSetCsvFile(f) ==
    /\ Mounted("master")
    /\ master' = [master EXCEPT !.csvFile = f]
    /\ UNCHANGED <<apiVars, editor, tab2, extract, rootVars, net, auth, shell, auto, sched, dom, storeVars, mem>>

\* handleSchedule up to its first await; the button is disabled while loading
MasterHandleSchedule ==
    /\ Mounted("master")
    /\ ~master.loading
    /\ master' =
         IF ~master.csvFile
         THEN [master EXCEPT !.error = JStr("Please upload a CSV file.")]
         ELSE IF mem.template.subject = "" \/ mem.template.body = EmptyText
         THEN [master EXCEPT !.error = JStr("Please fill in subject and body.")]
         ELSE [master EXCEPT !.loading = TRUE, !.error = JNull, !.result = NullData,
                             !.pc = "reading", !.uncaught = FALSE]
    /\ UNCHANGED <<apiVars, editor, tab2, extract, rootVars, net, auth, shell, auto, sched, dom, storeVars, mem>>

MasterRequest ==
    Request("/scheduleEmails/master", token,
            [subject |-> mem.template.subject, body |-> HtmlEnvelope(mem.template.body)],
            "master")

\* fileToBase64 resolves: the request is sent.
MasterFileLoaded ==
    /\ Mounted("master")
    /\ master.pc = "reading"
    /\ master' = [master EXCEPT !.pc = "calling"]
    /\ net' = net \cup {MasterRequest}
    /\ UNCHANGED <<apiVars, editor, tab2, extract, rootVars, auth, shell, auto, sched, dom, storeVars, mem>>

\* fileToBase64 rejects with the reader's event: err.message is undefined,
\* so err.message.includes throws inside the catch and no error is set; finally.
MasterFileError ==
    /\ Mounted("master")
    /\ master.pc = "reading"
    /\ master' = [master EXCEPT !.pc = "idle", !.loading = FALSE, !.uncaught = TRUE]
    /\ UNCHANGED <<apiVars, editor, tab2, extract, rootVars, net, auth, shell, auto, sched, dom, storeVars, mem>>

\* The request settles: setResult(data), or the catch's setError; finally.
MasterReply(r, f) ==
    /\ Awaited(r, "master")
    /\ master' = IF apiCall(f, FALSE).k = "return"
                 THEN [master EXCEPT !.pc = "idle", !.loading = FALSE,
                                     !.result = apiCall(f, FALSE).data]
                 ELSE [master EXCEPT !.pc = "idle", !.loading = FALSE,
                                     !.error = JStr(CaughtText(apiCall(f, FALSE).message,
                                                               "Scheduling failed"))]
    /\ net' = net \ {r}
    /\ UNCHANGED <<apiVars, editor, tab2, extract, rootVars, auth, shell, auto, sched, dom, storeVars, mem>>

ExtractSetCsvFile(f) ==
    /\ Mounted("extract")
    /\ extract' = [extract EXCEPT !.csvFile = f]
    /\ UNCHANGED <<apiVars, editor, tab2, master, rootVars, net, auth, shell, auto, sched, dom, storeVars, mem>>

\* disabled={loading || !csvFile}
ExtractEnabled(e) == ~e.loading /\ e.csvFile

\* handleExtract up to its first await, from its button
ExtractHandleExtract ==
    /\ Mounted("extract")
    /\ ExtractEnabled(extract)
    /\ extract' =
         IF ~extract.csvFile
         THEN [extract EXCEPT !.error = JStr("Please upload a CSV file.")]
         ELSE [extract EXCEPT !.loading = TRUE, !.error = JNull, !.resultBase64 = JNull,
                              !.pc = "reading", !.uncaught = FALSE]
    /\ UNCHANGED <<apiVars, editor, tab2, master, rootVars, net, auth, shell, auto, sched, dom, storeVars, mem>>

ExtractRequest ==
    Request("/extractEmails", token, [domain_col |-> "domain", workers |-> 20], "extract")

\* fileToBase64 resolves: the request is sent.
ExtractFileLoaded ==
    /\ Mounted("extract")
    /\ extract.pc = "reading"
    /\ extract' = [extract EXCEPT !.pc = "calling"]
    /\ net' = net \cup {ExtractRequest}
    /\ UNCHANGED <<apiVars, editor, tab2, master, rootVars, auth, shell, auto, sched, dom, storeVars, mem>>

\* fileToBase64 rejects with the reader's event, as in MasterScheduler.
ExtractFileError ==
    /\ Mounted("extract")
    /\ extract.pc = "reading"
    /\ extract' = [extract EXCEPT !.pc = "idle", !.loading = FALSE, !.uncaught = TRUE]
    /\ UNCHANGED <<apiVars, editor, tab2, master, rootVars, net, auth, shell, auto, sched, dom, storeVars, mem>>

\* typeof data === 'string' ? data : data.csv_base64; reading csv_base64 of
\* null throws a TypeError whose message the catch sets.
ExtractReply(r, f) ==
    /\ Awaited(r, "extract")
    /\ LET res == apiCall(f, FALSE) IN
       extract' =
         IF res.k = "return" /\ res.data.t = "string"
         THEN [extract EXCEPT !.pc = "idle", !.loading = FALSE, !.resultBase64 = res.data]
         ELSE IF res.k = "return" /\ ~ReadThrows(res.data)
         THEN [extract EXCEPT !.pc = "idle", !.loading = FALSE,
                              !.resultBase64 = res.data.fields.csv_base64]
         ELSE IF res.k = "return"
         THEN [extract EXCEPT !.pc = "idle", !.loading = FALSE,
                              !.error = JStr("Cannot read properties of null (reading 'csv_base64')")]
         ELSE [extract EXCEPT !.pc = "idle", !.loading = FALSE,
                              !.error = JStr(CaughtText(res.message, "Extraction failed"))]
    /\ net' = net \ {r}
    /\ UNCHANGED <<apiVars, editor, tab2, master, rootVars, auth, shell, auto, sched, dom, storeVars, mem>>

(***************************************************************************)
(* UserDashboard, UserStats and AdminDashboard: the calls made on mount.   *)
(***************************************************************************)
\* confirmModal of UserStats when it is null
NoModal == [show |-> FALSE, type |-> "", id |-> ""]

\* The useState values of UserDashboard, of UserStats (logs, selectedIds,
\* isDeleting, confirmModal, refreshing; alert is the text of the last
\* alert()) and of AdminDashboard (users, editingUser with "" for null,
\* adminMsg; closeTimers counts the pending setTimeout callbacks of
\* handleUpdate, opened counts the times the edit modal was opened, which
\* numbers its instances, and timerModals lists, oldest first, the instance
\* each pending callback was scheduled from).
ShellUnmounted ==
    [activeTab |-> "overview", health |-> "null", statsLoading |-> FALSE,
     statsPending |-> {}, adminLoading |-> FALSE,
     logs |-> <<>>, selectedIds |-> <<>>, isDeleting |-> FALSE,
     confirmModal |-> NoModal, refreshing |-> FALSE, alert |-> "",
     users |-> <<>>, editingUser |-> "", adminMsg |-> [type |-> "none", text |-> ""],
     closeTimers |-> 0, opened |-> 0, timerModals |-> <<>>]

\* UserDashboard mounts UserStats, whose initData awaits both fetches.
ShellUser ==
    [ShellUnmounted EXCEPT !.statsLoading = TRUE,
                           !.statsPending = {"stats.usage", "stats.logs"}]

\* AdminDashboard: fetchUsers sets isLoading.
ShellAdmin == [ShellUnmounted EXCEPT !.adminLoading = TRUE]

\* A mount effect that issues only the usage fetch.
StatsRequests_UsageOnly(tok) ==
    {Request("/emails/usage", tok, NoBody, "stats.usage")}

StatsRequests(tok) ==
    {Request("/emails/usage", tok, NoBody, "stats.usage"),
     Request("/emails/logs", tok, NoBody, "stats.logs")}

\* The calls the mount effects of the dashboard for (tok, admin) make.
DashboardRequests(tok, admin) ==
    IF admin
    THEN {Request("/admin/users", tok, NoBody, "admin.users"),
          Request("/admin/email-usage", tok, NoBody, "admin.usage")}
    ELSE {PublicRequest("/health", NoBody, "health")} \cup StatsRequests(tok)

\* The calls the mount effect of the panel of a tab makes.
TabRequests(tab, tok) ==
    IF tab = "overview" THEN StatsRequests(tok)
    ELSE IF tab = "domains" THEN {DomFetchRequest(tok)}
    ELSE {}

\* apiCall('/health').then(setHealth).catch(() => setHealth({status: 'error'}))
HealthReply(r, f) ==
    /\ Awaited(r, "health")
    /\ shell' = [shell EXCEPT !.health =
                    IF apiCall(f, FALSE).k = "return"
                       /\ apiCall(f, FALSE).data.t = "object"
                       /\ apiCall(f, FALSE).data.fields.status = JStr("ok")
                    THEN "ok" ELSE "down"]
    /\ net' = Settle(r, f)
    /\ UNCHANGED <<apiVars, editor, tab2, master, extract, rootVars, auth, auto, sched, dom, storeVars, mem>>

\* fetchLogs after its await: setLogs(data.logs || []), or the error is logged
LogsOf(logs, f) ==
    IF apiCall(f, FALSE).k = "return" /\ ~ReadThrows(apiCall(f, FALSE).data)
    THEN apiCall(f, FALSE).data.fields.logs
    ELSE logs

\* fetchStats or fetchLogs(true) of initData settles; setLoading(false)
\* follows the second of them.
StatsReply(r, f) ==
    /\ r \in net /\ r.alive /\ r.owner \in {"stats.usage", "stats.logs"}
    /\ shell' = [shell EXCEPT !.statsPending = @ \ {r.owner},
                              !.statsLoading = (shell.statsPending \ {r.owner}) # {},
                              !.logs = IF r.owner = "stats.logs" THEN LogsOf(@, f) ELSE @,
                              !.refreshing = IF r.owner = "stats.logs" THEN FALSE ELSE @]
    /\ net' = Settle(r, f)
    /\ UNCHANGED <<apiVars, editor, tab2, master, extract, rootVars, auth, auto, sched, dom, storeVars, mem>>

\* fetchUsers settles: finally setIsLoading(false)
AdminUsersReply(r, f) ==
    /\ Awaited(r, "admin.users")
    /\ shell' = [shell EXCEPT !.adminLoading = FALSE,
                              !.users = IF apiCall(f, FALSE).k = "return"
                                        THEN apiCall(f, FALSE).data.fields.users ELSE @]
    /\ net' = Settle(r, f)
    /\ UNCHANGED <<apiVars, editor, tab2, master, extract, rootVars, auth, auto, sched, dom, storeVars, mem>>

AdminUsageReply(r, f) ==
    /\ Awaited(r, "admin.usage")
    /\ net' = Settle(r, f)
    /\ UNCHANGED <<apiVars, editor, tab2, master, extract, rootVars, auth, shell, auto, sched, dom, storeVars, mem>>

\* setActiveTab(tab): the panel of the old tab is unmounted, the panel of
\* the new one is mounted and runs its mount effect.
SetActiveTab(tab) ==
    /\ View = "user"
    /\ tab # shell.activeTab
    /\ shell' = [ShellUnmounted EXCEPT
                    !.activeTab = tab,
                    !.health = shell.health,
                    !.statsLoading = (tab = "overview"),
                    !.statsPending = IF tab = "overview"
                                     THEN {"stats.usage", "stats.logs"} ELSE {}]
    /\ net' = Unmount(net, PanelOwners) \cup TabRequests(tab, token)
    /\ auto' = AutoInitial
    /\ sched' = SchedInitial
    /\ dom' = DomInitial
    /\ mem' = MemMounted(tab)
    /\ master' = MasterInitial
    /\ extract' = ExtractInitial
    /\ editor' = EditorInitial
    /\ UNCHANGED <<apiVars, tab2, rootVars, auth, storeVars>>

(***************************************************************************)
(* AuthScreen.handleLoginSubmit and App.handleLogin / handleLogout.        *)
(***************************************************************************)
EmptySignupData ==
    [email |-> "", otp |-> "", name |-> "", company_name |-> "", location |-> "",
     password |-> ""]

\* otpTimers and doneTimers count the setTimeout callbacks of handleRequestOtp
\* and of handleCompleteSignup that have not run yet.
AuthInitial ==
    [view |-> "login", isLoading |-> FALSE, error |-> "", pc |-> "idle",
     loginToken |-> JNull, signupStep |-> 1, signupData |-> EmptySignupData,
     signupSuccess |-> "", otpTimers |-> 0, doneTimers |-> 0, otpSentTo |-> ""]

\* "Sign Up" on the login form; "Back to Login" on step 1 of the signup form.
AuthSetView(v) ==
    /\ View = "auth"
    /\ v = "signup" => auth.view = "login"
    /\ v = "login" => (auth.view = "signup" /\ auth.signupStep = 1)
    /\ auth' = [auth EXCEPT !.view = v]
    /\ UNCHANGED <<apiVars, editor, tab2, master, extract, rootVars, net, shell, auto, sched, dom, storeVars, mem>>

\* Submit buttons that stay enabled while a request is in flight.
SubmitEnabled_Always(a) == TRUE

\* disabled={isLoading} on the three submit buttons of the AuthScreen
SubmitEnabled(a) == ~a.isLoading

\* handleLoginSubmit up to the first await; the button is disabled while
\* isLoading.
AuthLoginSubmit ==
    /\ View = "auth"
    /\ auth.view = "login"
    /\ SubmitEnabled(auth)
    /\ auth' = [auth EXCEPT !.isLoading = TRUE, !.error = "", !.pc = "login"]
    /\ net' = net \cup {PublicRequest("/login", NoBody, "login")}
    /\ UNCHANGED <<apiVars, editor, tab2, master, extract, rootVars, shell, auto, sched, dom, storeVars, mem>>

AuthFailed(text) ==
    [auth EXCEPT !.isLoading = FALSE, !.error = text, !.pc = "idle"]

\* data.access_token
AccessTokenOf(data) == IF data.t = "object" THEN data.fields.access_token ELSE JUndefined

\* data.error === "Admin approval required"
ApprovalRequired(data) ==
    data.t = "object" /\ data.fields.error = JStr("Admin approval required")

ProbeRequest(tok) == Request("/admin/users", tok, NoBody, "probe")

\* POST /login settles: the error is shown, or the probe is sent with the
\* token of the reply.
AuthLoginReply(r, f) ==
    /\ Awaited(r, "login")
    /\ auth.pc = "login"
    /\ LET res == apiCall(f, FALSE) IN
        IF res.k # "return"
        THEN /\ auth' = AuthFailed(res.message)
             /\ net' = net \ {r}
        ELSE IF ReadThrows(res.data)
        THEN /\ auth' = AuthFailed("Cannot read properties of null (reading 'error')")
             /\ net' = net \ {r}
        ELSE IF ApprovalRequired(res.data)
        THEN /\ auth' = AuthFailed("Your account is pending admin approval.")
             /\ net' = net \ {r}
        ELSE /\ auth' = [auth EXCEPT !.pc = "probing",
                                     !.loginToken = AccessTokenOf(res.data)]
             /\ net' = (net \ {r}) \cup {ProbeRequest(AccessTokenOf(res.data))}
    /\ UNCHANGED <<apiVars, editor, tab2, master, extract, rootVars, shell, auto, sched, dom, storeVars, mem>>

\* A probe whose outcome is not looked at.
ProbeAdminStatus_Always(res) == TRUE

\* try { await apiCall(probe); onLogin(token, true) } catch { onLogin(token, false) }
ProbeAdminStatus(res) == res.k = "return"

\* The probe settles: onLogin(token, adminStatus) sets the root's state; with
\* a truthy token the root replaces the AuthScreen by the dashboard, which
\* runs its mount effects; otherwise the AuthScreen stays and the finally
\* block clears isLoading.
AuthProbeReply(r, f) ==
    /\ Awaited(r, "probe")
    /\ auth.pc = "probing"
    /\ token' = auth.loginToken
    /\ isAdmin' = ProbeAdminStatus(apiCall(f, TRUE))
    /\ IF Truthy(auth.loginToken)
       THEN /\ auth' = AuthInitial
            /\ shell' = IF isAdmin' THEN ShellAdmin ELSE ShellUser
            /\ net' = (net \ {r}) \cup DashboardRequests(auth.loginToken, isAdmin')
       ELSE /\ auth' = [auth EXCEPT !.isLoading = FALSE, !.pc = "idle"]
            /\ shell' = shell
            /\ net' = net \ {r}
    /\ UNCHANGED <<apiVars, editor, tab2, master, extract, auto, sched, dom, storeVars, mem>>

\* handleLogout: setToken(null); setIsAdmin(false).  The dashboard and its
\* panel are unmounted and a fresh AuthScreen is mounted.
Logout ==
    /\ View # "auth"
    /\ token' = JNull
    /\ isAdmin' = FALSE
    /\ net' = Unmount(net, DashboardOwners)
    /\ auth' = AuthInitial
    /\ shell' = ShellUnmounted
    /\ auto' = AutoInitial
    /\ sched' = SchedInitial
    /\ dom' = DomInitial
    /\ mem' = MemEmpty
    /\ master' = MasterInitial
    /\ extract' = ExtractInitial
    /\ editor' = EditorInitial
    /\ UNCHANGED <<apiVars, tab2, storeVars>>

(***************************************************************************)
(* AuthScreen: the signup form, handleRequestOtp and handleCompleteSignup. *)
(***************************************************************************)
MaxTimers == 1

SignupFields == {"otp", "name", "company_name", "location", "password"}

\* "Change Email" on step 2 of the signup form
AuthChangeEmail ==
    /\ View = "auth"
    /\ auth.view = "signup"
    /\ auth.signupStep = 2
    /\ auth' = [auth EXCEPT !.signupStep = 1, !.signupSuccess = "", !.error = ""]
    /\ UNCHANGED <<apiVars, editor, tab2, master, extract, rootVars, net, shell, auto, sched, dom, storeVars, mem>>

\* setSignupData({...signupData, [k]: v}): step 1 shows the email field,
\* step 2 the other five (the email field is disabled there).
AuthSetSignupField(k, v) ==
    /\ View = "auth"
    /\ auth.view = "signup"
    /\ IF auth.signupStep = 1 THEN k = "email" ELSE k \in SignupFields
    /\ auth' = [auth EXCEPT !.signupData[k] = v]
    /\ UNCHANGED <<apiVars, editor, tab2, master, extract, rootVars, net, shell, auto, sched, dom, storeVars, mem>>

\* handleRequestOtp up to its await; the email field is required.
AuthRequestOtp ==
    /\ View = "auth"
    /\ auth.view = "signup"
    /\ auth.signupStep = 1
    /\ SubmitEnabled(auth)
    /\ auth.signupData.email # ""
    /\ auth.otpTimers < MaxTimers
    /\ auth' = [auth EXCEPT !.isLoading = TRUE, !.error = "", !.pc = "otp"]
    /\ net' = net \cup {PublicRequest("/signup", [email |-> auth.signupData.email], "otp")}
    /\ UNCHANGED <<apiVars, editor, tab2, master, extract, rootVars, shell, auto, sched, dom, storeVars, mem>>

\* handleRequestOtp after its await; otpSentTo records the address the
\* accepted POST /signup carried, which is where the server sent the code.
AuthOtpReply(r, f) ==
    /\ Awaited(r, "otp")
    /\ auth' = IF apiCall(f, FALSE).k = "return"
               THEN [auth EXCEPT !.signupStep = 2,
                                 !.signupSuccess = "OTP sent to " \o r.body.email,
                                 !.otpSentTo = r.body.email,
                                 !.otpTimers = @ + 1,
                                 !.isLoading = FALSE, !.pc = "idle"]
               ELSE AuthFailed(apiCall(f, FALSE).message)
    /\ net' = net \ {r}
    /\ UNCHANGED <<apiVars, editor, tab2, master, extract, rootVars, shell, auto, sched, dom, storeVars, mem>>

\* setTimeout(() => setSignupSuccess(''), 3000)
AuthOtpTimer ==
    /\ View = "auth"
    /\ auth.otpTimers > 0
    /\ auth' = [auth EXCEPT !.signupSuccess = "", !.otpTimers = @ - 1]
    /\ UNCHANGED <<apiVars, editor, tab2, master, extract, rootVars, net, shell, auto, sched, dom, storeVars, mem>>

\* handleCompleteSignup up to its await; the five fields are required.
AuthCompleteSignup ==
    /\ View = "auth"
    /\ auth.view = "signup"
    /\ auth.signupStep = 2
    /\ SubmitEnabled(auth)
    /\ \A k \in SignupFields : auth.signupData[k] # ""
    /\ auth.doneTimers < MaxTimers
    /\ auth' = [auth EXCEPT !.isLoading = TRUE, !.error = "", !.pc = "signup"]
    /\ net' = net \cup {PublicRequest("/verify-signup-otp", auth.signupData, "signup")}
    /\ UNCHANGED <<apiVars, editor, tab2, master, extract, rootVars, shell, auto, sched, dom, storeVars, mem>>

SignupSuccessText == "Signup successful! Waiting for admin approval."

\* handleCompleteSignup after its await
AuthSignupReply(r, f) ==
    /\ Awaited(r, "signup")
    /\ auth' = IF apiCall(f, FALSE).k = "return"
               THEN [auth EXCEPT !.signupSuccess = SignupSuccessText,
                                 !.doneTimers = @ + 1,
                                 !.isLoading = FALSE, !.pc = "idle"]
               ELSE AuthFailed(apiCall(f, FALSE).message)
    /\ net' = net \ {r}
    /\ UNCHANGED <<apiVars, editor, tab2, master, extract, rootVars, shell, auto, sched, dom, storeVars, mem>>

\* A callback that goes back to the login view and keeps the signup form.
SignupReset_KeepForm(a) == [a EXCEPT !.view = "login", !.signupSuccess = "", !.error = ""]

\* setView('login'); setSignupSuccess(''); setError(''); setSignupStep(1);
\* setSignupData({ email: '', ... })
SignupReset(a) ==
    [a EXCEPT !.view = "login", !.signupSuccess = "", !.error = "",
              !.signupStep = 1, !.signupData = EmptySignupData]

\* The callback of handleCompleteSignup's setTimeout runs.
AuthDoneTimer ==
    /\ View = "auth"
    /\ auth.doneTimers > 0
    /\ auth' = [SignupReset(auth) EXCEPT !.doneTimers = @ - 1]
    /\ UNCHANGED <<apiVars, editor, tab2, master, extract, rootVars, net, shell, auto, sched, dom, storeVars, mem>>

(***************************************************************************)
(* UserStats: the log table, its selection, the confirmation modal and the *)
(* three delete handlers.  The table and its buttons are rendered once     *)
(* initData has finished (loading is false).                               *)
(***************************************************************************)
StatsShown == Mounted("overview") /\ ~shell.statsLoading

\* logs.map(l => l._id); a log is modelled by its id
LogIds == {shell.logs[i] : i \in 1..Len(shell.logs)}

Includes(list, id) == \E i \in 1..Len(list) : list[i] = id

\* prev.filter(i => i !== id)
RECURSIVE WithoutId(_, _)
WithoutId(list, id) ==
    IF list = <<>> THEN <<>>
    ELSE (IF list[1] # id THEN <<list[1]>> ELSE <<>>) \o WithoutId(Tail(list), id)

\* prev.includes(id) ? prev.filter(i => i !== id) : [...prev, id]
Toggled(list, id) == IF Includes(list, id) THEN WithoutId(list, id) ELSE Append(list, id)

\* toggleSelect(id), from the checkbox of the row of a loaded log
LogsToggleSelect(id) ==
    /\ StatsShown
    /\ id \in LogIds
    /\ shell' = [shell EXCEPT !.selectedIds = Toggled(@, id)]
    /\ UNCHANGED <<apiVars, editor, tab2, master, extract, rootVars, net, auth, auto, sched, dom, storeVars, mem>>

\* selectedIds.length === logs.length ? [] : logs.map(l => l._id)
SelectAllToggled(selectedIds, logs) ==
    IF Len(selectedIds) = Len(logs) THEN <<>> ELSE logs

\* toggleSelectAll, from the checkbox of the table header
LogsToggleSelectAll ==
    /\ StatsShown
    /\ shell' = [shell EXCEPT !.selectedIds = SelectAllToggled(@, shell.logs)]
    /\ UNCHANGED <<apiVars, editor, tab2, master, extract, rootVars, net, auth, auto, sched, dom, storeVars, mem>>

\* The Refresh button: fetchLogs(); fetchStats()
LogsRefresh ==
    /\ StatsShown
    /\ ~shell.refreshing
    /\ shell' = [shell EXCEPT !.refreshing = TRUE]
    /\ net' = net \cup {Request("/emails/logs", token, NoBody, "logs.refresh"),
                        Request("/emails/usage", token, NoBody, "usage.refresh")}
    /\ UNCHANGED <<apiVars, editor, tab2, master, extract, rootVars, auth, auto, sched, dom, storeVars, mem>>

\* fetchLogs() of the Refresh button after its await
LogsRefreshReply(r, f) ==
    /\ Awaited(r, "logs.refresh")
    /\ shell' = [shell EXCEPT !.logs = LogsOf(@, f), !.refreshing = FALSE]
    /\ net' = Settle(r, f)
    /\ UNCHANGED <<apiVars, editor, tab2, master, extract, rootVars, auth, auto, sched, dom, storeVars, mem>>

\* fetchStats() of the Refresh button after its await: setStats or the log
UsageRefreshReply(r, f) ==
    /\ Awaited(r, "usage.refresh")
    /\ net' = Settle(r, f)
    /\ UNCHANGED <<apiVars, editor, tab2, master, extract, rootVars, auth, shell, auto, sched, dom, storeVars, mem>>

\* setConfirmModal({ show: true, type, id }): the row's delete button, the
\* "Delete Selected" button (shown with a selection) and the "Delete All
\* History" button (shown with logs)
LogsOpenModal(type, id) ==
    /\ StatsShown
    /\ CASE type = "single" -> id \in LogIds
         [] type = "bulk" -> id = "" /\ Len(shell.selectedIds) > 0
         [] type = "all" -> id = "" /\ Len(shell.logs) > 0
    /\ shell' = [shell EXCEPT !.confirmModal = [show |-> TRUE, type |-> type, id |-> id]]
    /\ UNCHANGED <<apiVars, editor, tab2, master, extract, rootVars, net, auth, auto, sched, dom, storeVars, mem>>

\* The Cancel button of the modal, disabled while isDeleting
LogsCancelModal ==
    /\ StatsShown
    /\ shell.confirmModal.show
    /\ ~shell.isDeleting
    /\ shell' = [shell EXCEPT !.confirmModal = NoModal]
    /\ UNCHANGED <<apiVars, editor, tab2, master, extract, rootVars, net, auth, auto, sched, dom, storeVars, mem>>

\* The request of the delete handler the modal of this type calls;
\* handleDeleteBulk returns at once without a selection.
DeleteRequests(modal, selectedIds, tok) ==
    CASE modal.type = "single" /\ modal.id # "" ->
            {Request("/emails/logs/" \o modal.id, tok, [method |-> "DELETE"], "logs.single")}
      [] modal.type = "bulk" /\ Len(selectedIds) > 0 ->
            {Request("/emails/logs/bulk-delete", tok,
                     [method |-> "POST", ids |-> selectedIds], "logs.bulk")}
      [] modal.type = "all" ->
            {Request("/emails/logs/delete-all", tok, [method |-> "DELETE"], "logs.all")}
      [] OTHER -> {}

\* The Delete button of the modal, disabled while isDeleting: the handler of
\* the modal's type up to its await
LogsConfirmDelete ==
    /\ StatsShown
    /\ shell.confirmModal.show
    /\ ~shell.isDeleting
    /\ shell' = [shell EXCEPT !.isDeleting =
                    DeleteRequests(shell.confirmModal, shell.selectedIds, token) # {}]
    /\ net' = net \cup DeleteRequests(shell.confirmModal, shell.selectedIds, token)
    /\ UNCHANGED <<apiVars, editor, tab2, master, extract, rootVars, auth, auto, sched, dom, storeVars, mem>>

\* A catch block that also drops the selection.
DeleteFailed_DropsSelection(s, message) ==
    [s EXCEPT !.alert = message, !.isDeleting = FALSE, !.confirmModal = NoModal,
              !.selectedIds = <<>>]

\* catch: alert(err.message); finally: setIsDeleting(false); setConfirmModal(null)
DeleteFailed(s, message) ==
    [s EXCEPT !.alert = message, !.isDeleting = FALSE, !.confirmModal = NoModal]

\* A delete handler after its first await: on success (the bulk handler
\* clears the selection and) fetchLogs(true) is called and awaited.
LogsDeleteReply(r, f) ==
    /\ r \in net /\ r.alive /\ r.owner \in {"logs.single", "logs.bulk", "logs.all"}
    /\ shell' = IF apiCall(f, FALSE).k # "return"
                THEN DeleteFailed(shell, apiCall(f, FALSE).message)
                ELSE IF r.owner = "logs.bulk" THEN [shell EXCEPT !.selectedIds = <<>>]
                ELSE shell
    /\ net' = Settle(r, f)
    /\ UNCHANGED <<apiVars, editor, tab2, master, extract, rootVars, auth, auto, sched, dom, storeVars, mem>>

\* fetchLogs(true) of a delete handler settles, then the handler's finally
LogsAfterReply(r, f) ==
    /\ Awaited(r, "logs.after")
    /\ shell' = [shell EXCEPT !.logs = LogsOf(@, f), !.refreshing = FALSE,
                              !.isDeleting = FALSE, !.confirmModal = NoModal]
    /\ net' = Settle(r, f)
    /\ UNCHANGED <<apiVars, editor, tab2, master, extract, rootVars, auth, auto, sched, dom, storeVars, mem>>

(***************************************************************************)
(* AdminDashboard: the edit modal and handleUpdate.  The Save button has   *)
(* no disabled state, and the timer of a successful save is never cleared. *)
(***************************************************************************)
MaxUpdates == 2

\* The edit modal is opened at most this many times.
MaxOpens == 2

\* The rows an edit button is shown for.
ListedUsers == {shell.users[i] : i \in 1..Len(shell.users)}

UpdateRequests == {r \in net : r.owner = "admin.update"}

\* handleEditClick(user): the rows lie under the modal's overlay while it is open
AdminEditClick(u) ==
    /\ View = "admin"
    /\ u \in ListedUsers
    /\ shell.editingUser = ""
    /\ shell.opened < MaxOpens
    /\ shell' = [shell EXCEPT !.editingUser = u, !.adminMsg = NoMsg, !.opened = @ + 1]
    /\ UNCHANGED <<apiVars, editor, tab2, master, extract, rootVars, net, auth, auto, sched, dom, storeVars, mem>>

\* The X button of the modal: setEditingUser(null)
AdminCloseModal ==
    /\ View = "admin"
    /\ shell.editingUser # ""
    /\ shell' = [shell EXCEPT !.editingUser = ""]
    /\ UNCHANGED <<apiVars, editor, tab2, master, extract, rootVars, net, auth, auto, sched, dom, storeVars, mem>>

\* handleUpdate up to its await
AdminHandleUpdate ==
    /\ View = "admin"
    /\ shell.editingUser # ""
    /\ shell.closeTimers + Cardinality(UpdateRequests) < MaxUpdates
    /\ shell' = [shell EXCEPT !.adminMsg = NoMsg]
    /\ net' = net \cup {Request("/admin/update-permissions", token,
                                [email |-> shell.editingUser, modal |-> shell.opened],
                                "admin.update")}
    /\ UNCHANGED <<apiVars, editor, tab2, master, extract, rootVars, auth, auto, sched, dom, storeVars, mem>>

\* The catch block of handleUpdate.
UpdateFailed(s, message) == [s EXCEPT !.adminMsg = [type |-> "error", text |-> message]]

\* handleUpdate after its await: the success message, fetchUsers(),
\* fetchUsage() and the timer that closes the modal; or the catch block.
AdminUpdateReply(r, f) ==
    /\ Awaited(r, "admin.update")
    /\ shell' = IF apiCall(f, FALSE).k = "return"
                THEN [shell EXCEPT
                        !.adminMsg = [type |-> "success", text |-> "User updated successfully!"],
                        !.adminLoading = TRUE,
                        !.closeTimers = @ + 1,
                        !.timerModals = Append(@, r.body.modal)]
                ELSE UpdateFailed(shell, apiCall(f, FALSE).message)
    /\ net' = Settle(r, f)
    /\ UNCHANGED <<apiVars, editor, tab2, master, extract, rootVars, auth, auto, sched, dom, storeVars, mem>>

\* setTimeout(() => setEditingUser(null), 1500)
AdminCloseTimer ==
    /\ View = "admin"
    /\ shell.closeTimers > 0
    /\ shell' = [shell EXCEPT !.editingUser = "", !.closeTimers = @ - 1,
                              !.timerModals = Tail(@)]
    /\ UNCHANGED <<apiVars, editor, tab2, master, extract, rootVars, net, auth, auto, sched, dom, storeVars, mem>>

(***************************************************************************)
(* A second browser tab showing the Schedule panel.  It runs the same      *)
(* code over its own React state (tab2) and the same localStorage; the     *)
(* program registers no listener for the storage event.                    *)
(***************************************************************************)
\* A setItem that writes only where no value is stored yet.
setItem_KeepStored(store, key, value) ==
    IF store[key].present THEN store ELSE [store EXCEPT ![key] = value]

\* localStorage.setItem(key, value): the stored text is replaced as a whole
setItem(store, key, value) == [store EXCEPT ![key] = value]

\* The panel of the second tab mounts (the tab is opened or reloaded).
Tab2Mount ==
    /\ tab2' = [MemEmpty EXCEPT
                  !.templates = ParseTemplates(storage.emailTemplates),
                  !.savedSenders = ParseSenders(storage.savedSenders)]
    /\ UNCHANGED <<apiVars, editor, master, extract, rootVars, net, auth, shell, auto, sched, dom, storeVars, mem>>

Tab2SetTemplateName(v) ==
    /\ tab2' = [tab2 EXCEPT !.template.name = v]
    /\ UNCHANGED <<apiVars, editor, master, extract, rootVars, net, auth, shell, auto, sched, dom, storeVars, mem>>

Tab2SaveTemplate ==
    /\ Len(tab2.templates) < MaxTemplates
    /\ IF tab2.template.name = ""
       THEN UNCHANGED <<tab2, storage>>
       ELSE /\ tab2' = [tab2 EXCEPT !.templates = WithNewTemplate(tab2),
                                    !.selectedTemplateId = NewTemplateId]
            /\ storage' = setItem(storage, "emailTemplates",
                                  StringifyTemplates(WithNewTemplate(tab2)))
    /\ UNCHANGED <<apiVars, editor, master, extract, rootVars, net, auth, shell, auto, sched, dom, now, mem>>

Tab2DeleteTemplate ==
    /\ tab2.selectedTemplateId # ""
    /\ tab2' = [tab2 EXCEPT
                  !.templates = WithoutTemplate(@, tab2.selectedTemplateId),
                  !.selectedTemplateId = "",
                  !.template = [name |-> "", subject |-> "", body |-> EmptyText]]
    /\ storage' = setItem(storage, "emailTemplates",
                    StringifyTemplates(WithoutTemplate(tab2.templates, tab2.selectedTemplateId)))
    /\ UNCHANGED <<apiVars, editor, master, extract, rootVars, net, auth, shell, auto, sched, dom, now, mem>>

Tab2SetSenderEmail(v) ==
    /\ tab2' = EditRow(tab2, 1, [tab2.senders[1] EXCEPT !.email = v])
    /\ UNCHANGED <<apiVars, editor, master, extract, rootVars, net, auth, shell, auto, sched, dom, storeVars, mem>>

Tab2SaveSenderProfile ==
    LET entry == SavedSender(1, tab2.senders[1].email, tab2.senders[1].password) IN
    /\ Len(SavedWith(tab2, entry)) <= MaxSavedSenders
    /\ IF entry.email = ""
       THEN UNCHANGED <<tab2, storage>>
       ELSE /\ tab2' = [tab2 EXCEPT !.savedSenders = SavedWith(tab2, entry)]
            /\ storage' = setItem(storage, "savedSenders",
                                  StringifySenders(SavedWith(tab2, entry)))
    /\ UNCHANGED <<apiVars, editor, master, extract, rootVars, net, auth, shell, auto, sched, dom, now, mem>>

Tab2DeleteSavedSender(email) ==
    /\ FindSender(tab2.savedSenders, email) # 0
    /\ tab2' = [tab2 EXCEPT !.savedSenders = WithoutSender(@, email)]
    /\ storage' = setItem(storage, "savedSenders",
                          StringifySenders(WithoutSender(tab2.savedSenders, email)))
    /\ UNCHANGED <<apiVars, editor, master, extract, rootVars, net, auth, shell, auto, sched, dom, now, mem>>

(***************************************************************************)
(* The specifications.                                                     *)
(***************************************************************************)
StorageEmpty == [emailTemplates |-> Absent, savedSenders |-> Absent]

\* The page has just been opened: nobody is logged in, nothing is stored.
PageOpened ==
    /\ token = JNull
    /\ isAdmin = FALSE
    /\ net = {}
    /\ auth = AuthInitial
    /\ shell = ShellUnmounted
    /\ auto = AutoInitial
    /\ sched = SchedInitial
    /\ dom = DomInitial
    /\ storage = StorageEmpty
    /\ now = 0
    /\ mem = MemEmpty
    /\ tab2 = MemEmpty
    /\ master = MasterInitial
    /\ extract = ExtractInitial
    /\ editor = EditorInitial

\* A user has logged in and opened a tab; the calls made on the way have
\* settled.
PanelOpened(tab) ==
    /\ token = JStr("token-1")
    /\ isAdmin = FALSE
    /\ net = {}
    /\ auth = AuthInitial
    /\ shell = [ShellUnmounted EXCEPT !.activeTab = tab, !.health = "ok"]
    /\ auto = AutoInitial
    /\ sched = SchedInitial
    /\ dom = DomInitial
    /\ storage = StorageEmpty
    /\ now = 0
    /\ mem = MemEmpty
    /\ tab2 = MemEmpty
    /\ master = MasterInitial
    /\ extract = ExtractInitial
    /\ editor = EditorInitial

\* SpecApi: apiCall as a function of the outcome of fetch.
InitApi ==
    /\ apiIn \in FetchOutcomes
    /\ apiOut = NoResult
    /\ PageOpened

ApiCallStep ==
    /\ apiOut = NoResult
    /\ \E suppressLog \in BOOLEAN : apiOut' = apiCall(apiIn, suppressLog)
    /\ UNCHANGED <<apiIn, editor, tab2, master, extract, rootVars, net, auth, shell, auto, sched, dom, storeVars, mem>>

NextApi == ApiCallStep

SpecApi == InitApi /\ [][NextApi]_vars

\* SpecAuto: the Auto-Schedule panel.
InitAuto == ApiIdle /\ PanelOpened("auto")

NextAuto ==
    \/ \E v \in StartDateTimes : AutoSetStartDateTime(v)
    \/ \E text \in GapTexts : AutoSetGapMinutes(text)
    \/ \E m \in AutoModes : AutoSetMode(m)
    \/ \E f \in BOOLEAN : AutoSetCsvFile(f)
    \/ AutoHandleSubmit
    \/ AutoFileLoaded
    \/ AutoFileError
    \/ \E f \in PanelReplies : AutoReply(f)

SpecAuto == InitAuto /\ [][NextAuto]_vars

\* SpecSchedule: the Schedule panel.
InitSchedule == ApiIdle /\ PanelOpened("schedule")

NextSchedule ==
    \/ \E m \in {"manual", "csv"} : SchedSetMode(m)
    \/ \E v \in Subjects : SetTemplateSubject(v)
    \/ \E v \in BodyTexts : SetTemplateBody(v)
    \/ \E f \in BOOLEAN : SchedSetCsvFile(f)
    \/ \E i \in 1..MaxReceivers, v \in ReceiverMails : SchedSetReceiverMail(i, v)
    \/ \E i \in 1..MaxReceivers, v \in ReceiverTimes : SchedSetReceiverTime(i, v)
    \/ SchedAddReceiver
    \/ \E i \in 1..MaxReceivers : SchedRemoveReceiver(i)
    \/ SchedHandleSubmit
    \/ SchedFileLoaded
    \/ SchedFileError
    \/ \E f \in PanelReplies : SchedReply(f)

SpecSchedule == InitSchedule /\ [][NextSchedule]_vars

\* SpecDomain: the Domain Manager.
InitDomain == ApiIdle /\ PanelOpened("domains")

NextDomain ==
    \/ \E v \in NewEmails : DomSetNewEmail(v)
    \/ DomHandleRequestVerification
    \/ \E r \in net, f \in DomainReplies : DomVerifyReply(r, f)
    \/ \E r \in net, f \in DomainReplies : DomFetchReply(r, f)

SpecDomain == InitDomain /\ [][NextDomain]_vars

\* SpecStore: the templates of the three campaign panels, one browser tab.
InitStore == ApiIdle /\ PanelOpened("schedule")

NextStore ==
    \/ Tick
    \/ \E tab \in CampaignTabs : SetActiveTab(tab)
    \/ \E v \in TemplateNames : SetTemplateName(v)
    \/ \E v \in Subjects : SetTemplateSubject(v)
    \/ \E v \in {EmptyText, <<"Hello", "World">>} : SetTemplateBody(v)
    \/ ScheduleSaveTemplate
    \/ AutoSaveTemplate
    \/ MasterSaveTemplate
    \/ ScheduleDeleteTemplate
    \/ AutoDeleteTemplate
    \/ MasterDeleteTemplate
    \/ \E id \in TemplateIds : ScheduleLoadTemplate(id)
    \/ \E id \in TemplateIds : AutoLoadTemplate(id)
    \/ \E id \in TemplateIds : MasterLoadTemplate(id)

SpecStore == InitStore /\ [][NextStore]_vars

\* SpecSenders: the saved sender profiles of the two panels that keep them.
InitSenders == ApiIdle /\ PanelOpened("schedule")

NextSenders ==
    \/ \E tab \in {"schedule", "auto"} : SetActiveTab(tab)
    \/ \E i \in 1..MaxSenders, v \in SenderEmails : ScheduleSetSenderEmail(i, v)
    \/ \E i \in 1..MaxSenders, v \in SenderPasswords : ScheduleSetSenderPassword(i, v)
    \/ ScheduleAddSender
    \/ \E i \in 1..MaxSenders : ScheduleRemoveSender(i)
    \/ \E i \in 1..MaxSenders, e \in SenderEmails : ScheduleLoadSavedSender(i, e)
    \/ \E i \in 1..MaxSenders : ScheduleSaveSenderProfile(i)
    \/ \E e \in SenderEmails : deleteSavedSender(e)
    \/ \E v \in SenderEmails : AutoSetSenderEmail(v)
    \/ \E v \in SenderPasswords : AutoSetSenderPassword(v)
    \/ \E e \in SenderEmails : AutoLoadSavedSender(e)
    \/ AutoSaveSenderProfile

SpecSenders == InitSenders /\ [][NextSenders]_vars

\* SpecSession: login, admin probe, the root's view, logout, and the calls
\* the dashboards and the Domain Manager make.
LoginReplies ==
    {Response(200, "OK", "application/json",
              ObjBody([NoFields EXCEPT !.access_token = t]))
        : t \in {JStr("token-1"), JStr("token-2"), JStr(""), JUndefined}}
    \cup {Response(200, "OK", "application/json",
                   ErrBody(JStr("Admin approval required"), JUndefined)),
          Response(200, "OK", "application/json", NullBody),
          Response(401, "Unauthorized", "application/json",
                   ErrBody(JStr("Invalid credentials"), JUndefined)),
          Rejection("TypeError", "Failed to fetch")}

ProbeReplies ==
    {Response(200, "OK", "application/json", ObjBody(NoFields)),
     Response(403, "Forbidden", "application/json",
              ErrBody(JStr("Admin access required"), JUndefined)),
     Response(500, "Internal Server Error", "text/plain", TextBody("")),
     Rejection("TypeError", "Failed to fetch")}

SessionReplies ==
    {Response(200, "OK", "application/json",
              ObjBody([NoFields EXCEPT !.status = JStr("verified"),
                                       !.domain = JStr("customdomain.com")])),
     Response(200, "OK", "application/json",
              ObjBody([NoFields EXCEPT !.status = JStr("ok"), !.domains =
                        <<[domain |-> "customdomain.com", status |-> "pending"]>>])),
     Response(401, "Unauthorized", "application/json",
              ErrBody(JStr("Token expired"), JUndefined))}

InitSession == ApiIdle /\ PageOpened

NextSession ==
    \/ \E v \in {"login", "signup"} : AuthSetView(v)
    \/ AuthLoginSubmit
    \/ \E r \in net, f \in LoginReplies : AuthLoginReply(r, f)
    \/ \E r \in net, f \in ProbeReplies : AuthProbeReply(r, f)
    \/ Logout
    \/ \E tab \in {"overview", "domains", "extract"} : SetActiveTab(tab)
    \/ \E r \in net, f \in SessionReplies : HealthReply(r, f)
    \/ \E r \in net, f \in SessionReplies : StatsReply(r, f)
    \/ \E r \in net, f \in SessionReplies : AdminUsersReply(r, f)
    \/ \E r \in net, f \in SessionReplies : AdminUsageReply(r, f)
    \/ \E r \in net, f \in SessionReplies : DomFetchReply(r, f)
    \/ \E d \in ListedDomains : DomCheckStatus(d)
    \/ \E r \in net, f \in SessionReplies : DomCheckReply(r, f)
    \/ \E r \in net, f \in SessionReplies : StaleReply(r, f)

SpecSession == InitSession /\ [][NextSession]_vars

\* SpecTabs: two browser tabs on the Schedule panel, both loaded from the
\* same storage.
InitTabs == ApiIdle /\ PanelOpened("schedule")

NextTabs ==
    \/ Tick
    \/ SetTemplateName("Promo")
    \/ ScheduleSaveTemplate
    \/ ScheduleDeleteTemplate
    \/ ScheduleSetSenderEmail(1, "a@b.com")
    \/ ScheduleSaveSenderProfile(1)
    \/ deleteSavedSender("a@b.com")
    \/ Tab2Mount
    \/ Tab2SetTemplateName("News")
    \/ Tab2SaveTemplate
    \/ Tab2DeleteTemplate
    \/ Tab2SetSenderEmail("c@d.com")
    \/ Tab2SaveSenderProfile
    \/ Tab2DeleteSavedSender("c@d.com")

SpecTabs == InitTabs /\ [][NextTabs]_vars

\* SpecSignup: the AuthScreen with its three forms, and logout.
SignupReplies ==
    {Response(200, "OK", "application/json", ObjBody(NoFields)),
     Response(200, "OK", "application/json",
              ObjBody([NoFields EXCEPT !.access_token = JStr("token-1")])),
     Response(400, "Bad Request", "application/json",
              ErrBody(JStr("Invalid OTP"), JUndefined)),
     Rejection("TypeError", "Failed to fetch")}

SignupEmails == {"u@co.com", "v@co.com"}

InitSignup == ApiIdle /\ PageOpened

NextSignup ==
    \/ \E v \in {"login", "signup"} : AuthSetView(v)
    \/ AuthChangeEmail
    \/ \E v \in SignupEmails : AuthSetSignupField("email", v)
    \/ \E k \in SignupFields : AuthSetSignupField(k, "x")
    \/ AuthLoginSubmit
    \/ \E r \in net, f \in LoginReplies : AuthLoginReply(r, f)
    \/ \E r \in net, f \in ProbeReplies : AuthProbeReply(r, f)
    \/ AuthRequestOtp
    \/ \E r \in net, f \in SignupReplies : AuthOtpReply(r, f)
    \/ AuthOtpTimer
    \/ AuthCompleteSignup
    \/ \E r \in net, f \in SignupReplies : AuthSignupReply(r, f)
    \/ AuthDoneTimer
    \/ Logout

SpecSignup == InitSignup /\ [][NextSignup]_vars

\* The callbacks handed to setTimeout run when their delay has passed.
SpecSignupFair ==
    SpecSignup /\ WF_vars(AuthOtpTimer) /\ WF_vars(AuthDoneTimer)

\* SpecAdmin: an admin has logged in and the two lists have loaded.
AdminUsers == <<"u1@co.com", "u2@co.com">>

AdminReplies ==
    {Response(200, "OK", "application/json", ObjBody([NoFields EXCEPT !.users = AdminUsers])),
     Response(500, "Internal Server Error", "application/json",
              ErrBody(JStr("Update failed"), JUndefined)),
     Rejection("TypeError", "Failed to fetch")}

InitAdmin ==
    /\ ApiIdle
    /\ token = JStr("token-1")
    /\ isAdmin = TRUE
    /\ net = {}
    /\ auth = AuthInitial
    /\ shell = [ShellUnmounted EXCEPT !.users = AdminUsers]
    /\ auto = AutoInitial
    /\ sched = SchedInitial
    /\ dom = DomInitial
    /\ storage = StorageEmpty
    /\ now = 0
    /\ mem = MemEmpty
    /\ tab2 = MemEmpty
    /\ master = MasterInitial
    /\ extract = ExtractInitial
    /\ editor = EditorInitial

NextAdmin ==
    \/ \E u \in ListedUsers : AdminEditClick(u)
    \/ AdminCloseModal
    \/ AdminHandleUpdate
    \/ \E r \in net, f \in AdminReplies : AdminUpdateReply(r, f)
    \/ AdminCloseTimer
    \/ \E r \in net, f \in AdminReplies : AdminUsersReply(r, f)
    \/ \E r \in net, f \in AdminReplies : AdminUsageReply(r, f)

SpecAdmin == InitAdmin /\ [][NextAdmin]_vars

\* SpecLogs: the Overview tab of a logged-in user.
LogLists == {<<>>, <<"l2">>, <<"l1", "l2">>}

LogsReplies ==
    {Response(200, "OK", "application/json", ObjBody([NoFields EXCEPT !.logs = l]))
        : l \in LogLists}
    \cup {Response(500, "Internal Server Error", "application/json",
                   ErrBody(JStr("Delete failed"), JUndefined)),
          Rejection("TypeError", "Failed to fetch")}

\* UserStats has just mounted: initData awaits its two fetches.
InitLogs ==
    /\ ApiIdle
    /\ token = JStr("token-1")
    /\ isAdmin = FALSE
    /\ net = StatsRequests(token)
    /\ auth = AuthInitial
    /\ shell = [ShellUser EXCEPT !.health = "ok"]
    /\ auto = AutoInitial
    /\ sched = SchedInitial
    /\ dom = DomInitial
    /\ storage = StorageEmpty
    /\ now = 0
    /\ mem = MemEmpty
    /\ tab2 = MemEmpty
    /\ master = MasterInitial
    /\ extract = ExtractInitial
    /\ editor = EditorInitial

NextLogs ==
    \/ \E r \in net, f \in LogsReplies : StatsReply(r, f)
    \/ \E id \in LogIds : LogsToggleSelect(id)
    \/ LogsToggleSelectAll
    \/ LogsRefresh
    \/ \E r \in net, f \in LogsReplies : LogsRefreshReply(r, f)
    \/ \E r \in net, f \in LogsReplies : UsageRefreshReply(r, f)
    \/ \E id \in LogIds : LogsOpenModal("single", id)
    \/ \E type \in {"bulk", "all"} : LogsOpenModal(type, "")
    \/ LogsCancelModal
    \/ LogsConfirmDelete
    \/ \E r \in net, f \in LogsReplies : LogsDeleteReply(r, f)
    \/ \E r \in net, f \in LogsReplies : LogsAfterReply(r, f)

SpecLogs == InitLogs /\ [][NextLogs]_vars

\* SpecChecks: the rows of the domain table and their Check and Delete
\* buttons, from the mount of DomainManager.
CheckedDomains == {"one.example", "two.example"}

CheckReplies ==
    {Response(200, "OK", "application/json", ObjBody([NoFields EXCEPT !.status = JStr(s)]))
        : s \in {"verified", "pending"}}
    \cup {Response(200, "OK", "application/json", ObjBody([NoFields EXCEPT !.domains = l]))
            : l \in {<<[domain |-> "one.example", status |-> "pending"],
                       [domain |-> "two.example", status |-> "pending"]>>,
                     <<[domain |-> "one.example", status |-> "verified"],
                       [domain |-> "two.example", status |-> "pending"]>>}}
    \cup {Response(500, "Internal Server Error", "application/json",
                   ErrBody(JStr("Check failed"), JUndefined))}

InitChecks ==
    /\ ApiIdle
    /\ token = JStr("token-1")
    /\ isAdmin = FALSE
    /\ net = TabRequests("domains", token)
    /\ auth = AuthInitial
    /\ shell = [ShellUnmounted EXCEPT !.activeTab = "domains", !.health = "ok"]
    /\ auto = AutoInitial
    /\ sched = SchedInitial
    /\ dom = DomInitial
    /\ storage = StorageEmpty
    /\ now = 0
    /\ mem = MemEmpty
    /\ tab2 = MemEmpty
    /\ master = MasterInitial
    /\ extract = ExtractInitial
    /\ editor = EditorInitial

NextChecks ==
    \/ \E r \in net, f \in CheckReplies : DomFetchReply(r, f)
    \/ \E d \in CheckedDomains : DomCheckStatus(d)
    \/ \E r \in net, f \in CheckReplies : DomCheckReply(r, f)
    \/ \E d \in CheckedDomains : DomHandleDeleteDomain(d)
    \/ \E r \in net, f \in CheckReplies : DomDeleteReply(r, f)

SpecChecks == InitChecks /\ [][NextChecks]_vars

\* SpecPanels: the submit of the four campaign panels, one mounted at a time.
SubmitTabs == {"schedule", "auto", "master", "extract"}

SubmitReplies ==
    PanelReplies
    \cup {Response(200, "OK", "application/json",
                   ObjBody([NoFields EXCEPT !.csv_base64 = JStr("ZW1haWw=")])),
          Response(200, "OK", "application/json", NullBody),
          Response(403, "Forbidden", "application/json",
                   ErrBody(JStr("Access Expired"), JUndefined))}

InitPanels == ApiIdle /\ PanelOpened("schedule")

NextPanels ==
    \/ \E tab \in SubmitTabs : SetActiveTab(tab)
    \/ SetTemplateSubject("Hi")
    \/ SetTemplateBody(<<"Hello">>)
    \/ \E m \in {"manual", "csv"} : SchedSetMode(m)
    \/ SchedSetCsvFile(TRUE)
    \/ SchedHandleSubmit
    \/ SchedFileLoaded
    \/ SchedFileError
    \/ \E f \in SubmitReplies : SchedReply(f)
    \/ \E v \in {EmptyDateTime, DateTimeLocal("2026-01-01", "10:00", "")} :
          AutoSetStartDateTime(v)
    \/ \E m \in AutoModes : AutoSetMode(m)
    \/ AutoSetCsvFile(TRUE)
    \/ AutoHandleSubmit
    \/ AutoFileLoaded
    \/ AutoFileError
    \/ \E f \in SubmitReplies : AutoReply(f)
    \/ \E f \in BOOLEAN : MasterSetCsvFile(f)
    \/ MasterHandleSchedule
    \/ MasterFileLoaded
    \/ MasterFileError
    \/ \E r \in net, f \in SubmitReplies : MasterReply(r, f)
    \/ \E f \in BOOLEAN : ExtractSetCsvFile(f)
    \/ ExtractHandleExtract
    \/ ExtractFileLoaded
    \/ ExtractFileError
    \/ \E r \in net, f \in SubmitReplies : ExtractReply(r, f)

SpecPanels == InitPanels /\ [][NextPanels]_vars

\* SpecShare: the templates and the saved senders of one browser tab, as
\* the user moves between the three campaign panels.
InitShare == ApiIdle /\ PanelOpened("schedule")

NextShare ==
    \/ Tick
    \/ \E tab \in CampaignTabs : SetActiveTab(tab)
    \/ SetTemplateName("Promo")
    \/ ScheduleSaveTemplate
    \/ AutoSaveTemplate
    \/ MasterSaveTemplate
    \/ ScheduleDeleteTemplate
    \/ AutoDeleteTemplate
    \/ MasterDeleteTemplate
    \/ \E v \in {"a@b.com", "c@d.com"} : ScheduleSetSenderEmail(1, v)
    \/ ScheduleSaveSenderProfile(1)
    \/ \E e \in {"a@b.com", "c@d.com"} : deleteSavedSender(e)
    \/ \E v \in {"a@b.com", "c@d.com"} : AutoSetSenderEmail(v)
    \/ AutoSaveSenderProfile

SpecShare == InitShare /\ [][NextShare]_vars

\* SpecEditor: the body editor of the Schedule panel.
InitEditor == ApiIdle /\ PanelOpened("schedule")

NextEditor ==
    \/ \E tg \in TagButtons : EditorInsertTag(tg)
    \/ EditorTimer
    \/ EditorSetIsPreview
    \/ \E start, end \in SelectPositions : EditorSelect(start, end)
    \/ \E v \in Texts, caret \in SelectPositions : EditorChange(v, caret)

SpecEditor == InitEditor /\ [][NextEditor]_vars

(***************************************************************************)
(* Properties of apiCall (SpecApi).                                        *)
(***************************************************************************)
ApiDone == apiOut.k # "none"

ApiJsonObject ==
    /\ apiIn.kind = "response"
    /\ IsJsonContentType(apiIn.ctype)
    /\ apiIn.body.json = "object"

\* The raw text of a body that is not a JSON object: the text itself, or the
\* string a JSON string body parses to.
ApiRawText ==
    IF IsJsonContentType(apiIn.ctype) THEN apiIn.body.str ELSE apiIn.body.text

\* The message the stated priority order selects: the error field when the
\* body has one, else the message field, else the raw text, else the
\* synthesized text.
ApiPriorityMessage ==
    IF ApiJsonObject /\ apiIn.body.fields.error # JUndefined
        THEN apiIn.body.fields.error.v
    ELSE IF ApiJsonObject /\ apiIn.body.fields.message # JUndefined
        THEN apiIn.body.fields.message.v
    ELSE IF ~ApiJsonObject /\ ApiRawText # ""
        THEN ApiRawText
    ELSE "Server Error: " \o ToString(apiIn.status) \o " " \o apiIn.statusText

\* C1: for every non-2xx response the thrown message follows the priority
\* order error field, message field, raw text, synthesized "Server Error"
\* text; with an error field in the JSON body the message is that field's
\* value, whatever the value and whether or not message is present.
C1_ErrorFieldFirst ==
    (ApiDone /\ apiIn.kind = "response" /\ ~ResOk(apiIn)) =>
        /\ apiOut.k = "throw"
        /\ apiOut.message = ApiPriorityMessage

GapsInRange == {ToString(n) : n \in 1..60}

\* C3: a POST /scheduleEmails/auto request is issued only with
\* 1 <= gapMinutes <= 60; every other value the gap state can hold,
\* not-a-number included, is blocked before the network.
C3_GapInRange ==
    \A r \in net :
        r.endpoint = "/scheduleEmails/auto" => r.body.gapMinutes \in GapsInRange

(***************************************************************************)
(* Properties of the Schedule panel (SpecSchedule).                        *)
(***************************************************************************)
NoValidReceiverMsg ==
    [type |-> "error", text |-> "Please add at least one valid receiver with a date."]

\* handleSubmit goes on towards the POST (it reads the file, or calls).
SchedProceeds == sched'.pc # "idle"

\* What a submit that goes on must have found.
SchedPreconditions ==
    /\ mem.template.subject # ""
    /\ mem.template.body # EmptyText
    /\ IF sched.mode = "manual"
       THEN \E i \in 1..Len(sched.receivers) : ValidReceiver(sched.receivers[i])
       ELSE sched.csvFile

NoValidReceiverRow ==
    /\ sched.mode = "manual"
    /\ \A i \in 1..Len(sched.receivers) : ~ValidReceiver(sched.receivers[i])

\* C4 as stated: handleSubmit goes on to POST /scheduleEmails only with a
\* non-empty subject and body and a valid receiver row (manual mode) or a
\* selected file (CSV mode); in manual mode without a valid receiver row it
\* sets the 'no valid receiver' error and leaves the network alone.
C4_ValidatedBeforePost ==
    [][SchedHandleSubmit =>
          /\ SchedProceeds => SchedPreconditions
          /\ NoValidReceiverRow =>
                /\ sched'.responseMsg = NoValidReceiverMsg
                /\ net' = net]_vars

\* C4 amended: handleSubmit goes on to POST /scheduleEmails only with a
\* non-empty subject and body and a valid receiver row (manual mode) or a
\* selected file (CSV mode); in manual mode without a valid receiver row it
\* never touches the network and sets an error, which is the 'no valid
\* receiver' error when subject and body are non-empty and 'Template
\* required.' otherwise.
C4_TemplateCheckedFirst ==
    [][SchedHandleSubmit =>
          /\ SchedProceeds => SchedPreconditions
          /\ NoValidReceiverRow =>
                /\ net' = net
                /\ ~SchedProceeds
                /\ sched'.responseMsg =
                      IF mem.template.subject # "" /\ mem.template.body # EmptyText
                      THEN NoValidReceiverMsg
                      ELSE [type |-> "error", text |-> "Template required."]]_vars

\* A submit in manual mode with a template and no valid receiver row was
\* blocked with the 'no valid receiver' error.
C4_Witness ==
    /\ sched.responseMsg = NoValidReceiverMsg
    /\ sched.mode = "manual"
    /\ mem.template.subject # ""
    /\ mem.template.body # EmptyText
    /\ NoValidReceiverRow
    /\ net = {}

(***************************************************************************)
(* Properties of the Domain Manager (SpecDomain).                          *)
(***************************************************************************)
\* The domain of an address: what follows its last '@', in lower case.
DomainOfEmail(parts) == toLowerCase(parts[Len(parts)])

\* C5: handleRequestVerification for an email whose domain is one of the
\* eight public providers sets the public-domain error and issues no API
\* call; for an email with any other domain it calls
\* POST /domains/request-verification with that email.
C5_PublicDomainsBlocked ==
    [][(DomHandleRequestVerification /\ Len(dom.newEmail) >= 2) =>
          IF DomainOfEmail(dom.newEmail) \in blockedDomains
          THEN /\ dom'.msg = PublicDomainMsg
               /\ net' = net
          ELSE \E r \in net' :
                  /\ r.endpoint = "/domains/request-verification"
                  /\ r.body.sender_email = dom.newEmail]_vars

(***************************************************************************)
(* Properties of the login flow and of the session (SpecSession).          *)
(***************************************************************************)
Probes == {r \in net : r.owner = "probe"}

\* POST /login succeeded and returned a token.
LoginReturnedToken(res) ==
    /\ res.k = "return"
    /\ ~ReadThrows(res.data)
    /\ ~ApprovalRequired(res.data)
    /\ Truthy(AccessTokenOf(res.data))

\* POST /login failed, or reported 'Admin approval required'.
LoginRefused(res) ==
    \/ res.k = "throw"
    \/ res.k = "return" /\ ~ReadThrows(res.data) /\ ApprovalRequired(res.data)

\* C6: after POST /login succeeds and returns a token the probe
\* GET /admin/users is called with that token; the root gets that token and
\* is admin iff the probe succeeded, and a failed probe mounts the user
\* console.  onLogin runs once per successful login, when the one probe
\* settles, and never when /login fails or reports 'Admin approval
\* required'.
C6_LoginProbe ==
    [][/\ \A r \in net, f \in LoginReplies :
            AuthLoginReply(r, f) =>
               /\ token' = token /\ isAdmin' = isAdmin
               /\ LoginReturnedToken(apiCall(f, FALSE)) =>
                     /\ net' \ net = {ProbeRequest(AccessTokenOf(apiCall(f, FALSE).data))}
                     /\ Probes = {}
               /\ LoginRefused(apiCall(f, FALSE)) =>
                     /\ net' \ net = {}
                     /\ auth'.pc = "idle"
                     /\ auth'.error # ""
       /\ \A r \in net, f \in ProbeReplies :
            (AuthProbeReply(r, f) /\ Truthy(auth.loginToken)) =>
               /\ r.auth = Bearer(auth.loginToken)
               /\ token' = auth.loginToken
               /\ isAdmin' = (apiCall(f, TRUE).k = "return")
               /\ View' = IF apiCall(f, TRUE).k = "return" THEN "admin" ELSE "user"
               /\ {q \in net' : q.owner \in {"probe", "login"}} = {}
               /\ auth'.pc = "idle"
       /\ (token' # token /\ token' # JNull) =>
            \E r \in net, f \in ProbeReplies : AuthProbeReply(r, f)]_vars

\* A login whose probe failed: the root holds the token, the session is not
\* admin and the user console has made its mount calls with that token.
C6_Witness ==
    /\ token = JStr("token-2")
    /\ ~isAdmin
    /\ View = "user"
    /\ shell.activeTab = "overview"
    /\ StatsRequests(token) \subseteq net
    /\ auth = AuthInitial

PublicEndpoints == {"/login", "/signup", "/verify-signup-otp", "/health"}

\* C10: every privileged request issued after login carries
\* Authorization: Bearer <token> with the token the root holds when the
\* request is issued; none is issued without it or with the token of an
\* earlier session.  (The probe of a login in progress is not counted.)
C10_RequestsCarryCurrentToken ==
    [][\A r \in net' :
          (/\ r \notin net
           /\ [r EXCEPT !.alive = TRUE] \notin net
           /\ r.endpoint \notin PublicEndpoints
           /\ r.owner # "probe") =>
             /\ Truthy(token')
             /\ r.auth = Bearer(token')]_vars

(***************************************************************************)
(* Properties of the persisted collections (SpecStore, SpecSenders).       *)
(***************************************************************************)
PersistedTemplates == ParseTemplates(storage.emailTemplates)

PersistedSenders == ParseSenders(storage.savedSenders)

\* C7: a save with a non-empty name, from any campaign panel, appends
\* exactly one entry to the in-memory and to the persisted collection: the
\* length grows by one, the entries before it are unchanged, and reloading
\* from storage gives back the saved name, subject and body.  A save with
\* an empty name changes neither collection.
C7_SaveAppendsOne ==
    [][\A tab \in CampaignTabs :
          saveTemplate(tab) =>
             IF mem.template.name = ""
             THEN mem'.templates = mem.templates /\ storage' = storage
             ELSE /\ Len(mem'.templates) = Len(mem.templates) + 1
                  /\ SubSeq(mem'.templates, 1, Len(mem.templates)) = mem.templates
                  /\ Len(PersistedTemplates') = Len(PersistedTemplates) + 1
                  /\ SubSeq(PersistedTemplates', 1, Len(PersistedTemplates)) = PersistedTemplates
                  /\ LET t == PersistedTemplates'[Len(PersistedTemplates')] IN
                        /\ t.name = mem.template.name
                        /\ t.subject = mem.template.subject
                        /\ t.body = mem.template.body
                  /\ PersistedTemplates' = mem'.templates]_vars

\* Two templates are stored, the second saved from the Master panel with
\* its name, subject and two-line body.
C7_Witness ==
    /\ shell.activeTab = "master"
    /\ Len(PersistedTemplates) = 2
    /\ PersistedTemplates[2].name = "Promo"
    /\ PersistedTemplates[2].subject = "Hi"
    /\ PersistedTemplates[2].body = <<"Hello", "World">>
    /\ mem.selectedTemplateId = PersistedTemplates[2].id
    /\ mem.templates = PersistedTemplates

\* C8: whatever the saves and deletes and the time between them, the
\* templates of the persisted collection have pairwise distinct ids.
C8_TemplateIdsUnique ==
    \A i, j \in 1..Len(PersistedTemplates) :
        i # j => PersistedTemplates[i].id # PersistedTemplates[j].id

\* What the claim asks of a save of {email, password} with a non-empty email.
UpsertedByEmail(email, password) ==
    /\ Cardinality({k \in 1..Len(PersistedSenders') : PersistedSenders'[k].email = email}) = 1
    /\ \A k \in 1..Len(PersistedSenders') :
          PersistedSenders'[k].email = email => PersistedSenders'[k].password = password
    /\ (\E k \in 1..Len(PersistedSenders) : PersistedSenders[k].email = email) =>
          /\ Len(PersistedSenders') = Len(PersistedSenders)
          /\ \A k \in 1..Len(PersistedSenders) :
                PersistedSenders[k].email # email => PersistedSenders'[k] = PersistedSenders[k]
    /\ (\E k \in 1..Len(PersistedSenders) :
            PersistedSenders[k] = SavedSender(0, email, password)) => storage' = storage

\* C9: a save of {email, password} leaves exactly one stored entry for that
\* email, with that password; saving it again leaves the persisted
\* collection as it is; saving an existing email with another password
\* replaces that entry in place, the length and the other entries staying
\* as they were.
C9_UpsertByEmail ==
    [][/\ \A i \in 1..MaxSenders :
            (ScheduleSaveSenderProfile(i) /\ mem.senders[i].email # "") =>
                UpsertedByEmail(mem.senders[i].email, mem.senders[i].password)
       /\ (AutoSaveSenderProfile /\ mem.senders[1].email # "") =>
                UpsertedByEmail(mem.senders[1].email, mem.senders[1].password)]_vars

(***************************************************************************)
(* Properties of the session token (SpecSession).                          *)
(***************************************************************************)
\* The server refuses the token of the request: 401 or 403.
TokenRejected(f) == f.kind = "response" /\ f.status \in {401, 403}

\* A mounted component's privileged call, made with the root's token,
\* settles with the reply f.
PrivilegedCallSettles(r, f) ==
    /\ r.alive
    /\ Truthy(token)
    /\ r.tok = token
    /\ \/ StatsReply(r, f)
       \/ AdminUsersReply(r, f)
       \/ AdminUsageReply(r, f)
       \/ DomFetchReply(r, f)
       \/ DomCheckReply(r, f)

\* C11: whenever the root holds no token the Auth Flow is shown, and
\* whenever the server rejects a privileged call made with the session
\* token the application is back at the Auth Flow.
C11_RejectionRoutesToAuth ==
    /\ [](~Truthy(token) => View = "auth")
    /\ [][\A r \in net, f \in SessionReplies :
            (TokenRejected(f) /\ PrivilegedCallSettles(r, f)) => View' = "auth"]_vars

(***************************************************************************)
(* Properties of the persisted collections with two tabs (SpecTabs).       *)
(***************************************************************************)
\* The {email, password} values of a list of saved senders.
SenderValues(list) == [k \in 1..Len(list) |-> Sender(list[k].email, list[k].password)]

\* C12: a write from either tab leaves in storage exactly the writing tab's
\* in-memory list (the whole collection is overwritten, nothing of what the
\* other tab stored since is merged in), and the other tab's in-memory
\* state is not touched by it.
C12_LastWriterWins ==
    [][/\ ((ScheduleSaveTemplate /\ mem.template.name # "") \/ ScheduleDeleteTemplate) =>
             (PersistedTemplates' = mem'.templates /\ tab2' = tab2)
       /\ ((Tab2SaveTemplate /\ tab2.template.name # "") \/ Tab2DeleteTemplate) =>
             (PersistedTemplates' = tab2'.templates /\ mem' = mem)
       /\ ((ScheduleSaveSenderProfile(1) /\ mem.senders[1].email # "")
            \/ deleteSavedSender("a@b.com")) =>
             (SenderValues(PersistedSenders') = SenderValues(mem'.savedSenders) /\ tab2' = tab2)
       /\ ((Tab2SaveSenderProfile /\ tab2.senders[1].email # "")
            \/ Tab2DeleteSavedSender("c@d.com")) =>
             (SenderValues(PersistedSenders') = SenderValues(tab2'.savedSenders) /\ mem' = mem)]_vars

\* Both tabs started from the empty collection; the first tab saved "Promo",
\* then the second saved "News": storage holds the second tab's list and
\* "Promo" is in the first tab's memory only.
C12_Witness ==
    /\ Len(mem.templates) = 1
    /\ mem.templates[1].name = "Promo"
    /\ Len(tab2.templates) = 1
    /\ tab2.templates[1].name = "News"
    /\ PersistedTemplates = tab2.templates
    /\ SenderValues(mem.savedSenders) = <<Sender("a@b.com", "")>>
    /\ SenderValues(PersistedSenders) = <<Sender("c@d.com", "")>>

(***************************************************************************)
(* The network-error message of apiCall (SpecApi).                         *)
(***************************************************************************)
\* The body of the response can be read: it is not declared JSON, or it parses.
ApiBodyReadable == ~(IsJsonContentType(apiIn.ctype) /\ apiIn.body.json = "invalid")

\* C13: the fixed network-error message is thrown only when fetch obtained
\* no response; for a response with a non-2xx status the thrown message is
\* the one extracted from the body, whatever text the body holds.
C13_NetworkErrorOnlyWithoutResponse ==
    ApiDone =>
        /\ (apiOut.k = "throw" /\ apiOut.message = NetworkErrorMessage) => apiIn.kind = "reject"
        /\ (apiIn.kind = "response" /\ ~ResOk(apiIn) /\ ApiBodyReadable) =>
              /\ apiOut.k = "throw"
              /\ apiOut.message =
                    ErrorMessageOf(apiIn, IF IsJsonContentType(apiIn.ctype)
                                          THEN DataOfJson(apiIn.body)
                                          ELSE DataOfText(apiIn.body))

(***************************************************************************)
(* Properties of the AuthScreen (SpecSignup, SpecSignupFair).              *)
(***************************************************************************)
\* The flow is at the login view, signup step 1, the signup fields empty.
BackAtLogin ==
    /\ auth.view = "login"
    /\ auth.signupStep = 1
    /\ auth.signupData = EmptySignupData

\* C14: a successful POST /verify-signup-otp creates no session (the root's
\* token and admin flag are only ever set by the login probe); it shows the
\* success message and, when its timer runs, the flow is at view 'login',
\* signup step 1, with all signup fields cleared; the timer does run.
C14_SignupNeverLogsIn ==
    /\ [][\A r \in net, f \in SignupReplies :
            AuthSignupReply(r, f) =>
                /\ token' = token /\ isAdmin' = isAdmin /\ View' = "auth"
                /\ apiCall(f, FALSE).k = "return" =>
                      /\ auth'.signupSuccess = SignupSuccessText
                      /\ auth'.doneTimers = auth.doneTimers + 1]_vars
    /\ [][(token' # token /\ Truthy(token')) =>
            \E r \in net, f \in ProbeReplies : AuthProbeReply(r, f)]_vars
    /\ [][AuthDoneTimer => (BackAtLogin' /\ auth'.signupSuccess = "" /\ ~Truthy(token'))]_vars
    /\ (auth.doneTimers > 0) ~> BackAtLogin

\* The signup has succeeded: its message is shown, its timer is pending, the
\* filled form is still there and nobody is logged in.
C14_Witness ==
    /\ View = "auth"
    /\ token = JNull
    /\ auth.signupSuccess = SignupSuccessText
    /\ auth.doneTimers = 1
    /\ auth.signupStep = 2
    /\ auth.signupData.otp = "x"
    /\ ~auth.isLoading

\* The requests of the AuthScreen's handlers that are in flight.
AuthRequests == {r \in net : r.owner \in {"login", "probe", "otp", "signup"}}

\* C15: at most one auth request (login, its probe, OTP request, signup
\* completion) is in flight; while one is, the AuthScreen is shown with
\* isLoading true, and once it has settled isLoading is false again.
C15_OneAuthRequestInFlight ==
    /\ Cardinality(AuthRequests) <= 1
    /\ AuthRequests # {} => (View = "auth" /\ auth.isLoading)
    /\ AuthRequests = {} => ~auth.isLoading

\* The admin probe of a login is in flight while the user has moved to the
\* signup form, which is disabled as well.
C15_Witness ==
    /\ \E r \in net : r.owner = "probe"
    /\ auth.view = "signup"
    /\ auth.signupData.email # ""
    /\ auth.isLoading

(***************************************************************************)
(* Properties of the AdminDashboard's edit modal (SpecAdmin).              *)
(***************************************************************************)
\* C16: when POST /admin/update-permissions fails the error is shown in the
\* modal, editingUser is unchanged and no list is fetched again; and a modal
\* showing the error stays open on its user until the admin closes it.
C16_FailureKeepsModalOpen ==
    /\ [][\A r \in net, f \in AdminReplies :
            (AdminUpdateReply(r, f) /\ apiCall(f, FALSE).k = "throw") =>
                /\ shell'.adminMsg = [type |-> "error", text |-> apiCall(f, FALSE).message]
                /\ shell'.editingUser = shell.editingUser
                /\ net' = net \ {r}]_vars
    /\ [][(shell.editingUser # "" /\ shell.adminMsg.type = "error"
           /\ shell'.editingUser # shell.editingUser) => AdminCloseModal]_vars

(***************************************************************************)
(* Properties of the log table of UserStats (SpecLogs).                    *)
(***************************************************************************)
SelectedIds == {shell.selectedIds[i] : i \in 1..Len(shell.selectedIds)}

\* C17: while the log table is shown, every id in selectedIds is the id of
\* a log in the currently loaded log list.
C17_SelectionWithinLoadedLogs == StatsShown => SelectedIds \subseteq LogIds

\* C18: toggleSelectAll clears the selection if and only if the set of
\* selected ids equals the set of the loaded log ids, and in every other
\* state it sets the selection to the ids of all loaded logs.
C18_SelectAllIsSetEquality ==
    [][LogsToggleSelectAll =>
         shell'.selectedIds = IF SelectedIds = LogIds THEN <<>> ELSE shell.logs]_vars

DeleteOwners == {"logs.single", "logs.bulk", "logs.all"}

\* A delete request settles with a failure of apiCall.
DeleteFails(r, f) == LogsDeleteReply(r, f) /\ apiCall(f, FALSE).k # "return"

\* A delete request settles with apiCall returning.
DeleteSucceeds(r, f) == LogsDeleteReply(r, f) /\ apiCall(f, FALSE).k = "return"

\* C19: when a single, bulk or delete-all request fails, the error message
\* is alerted, the loaded logs and the selection stay as they are, no
\* request is issued, the modal is closed and isDeleting is false again.
C19_DeletionsFailClosed ==
    [][\A r \in net, f \in LogsReplies :
         DeleteFails(r, f) =>
            /\ shell'.alert = apiCall(f, FALSE).message
            /\ shell'.alert # ""
            /\ shell'.logs = shell.logs
            /\ shell'.selectedIds = shell.selectedIds
            /\ net' = net \ {r}
            /\ shell'.confirmModal = NoModal
            /\ ~shell'.isDeleting]_vars

C19_Witness ==
    /\ StatsShown
    /\ shell.alert # ""
    /\ shell.logs # <<>>
    /\ shell.selectedIds # <<>>
    /\ ~shell.isDeleting
    /\ ~shell.confirmModal.show
    /\ net = {}

\* The endpoint and method the modal of this type is about.
ConfirmedBy(q, modal) ==
    /\ modal.show
    /\ q.owner = "logs." \o modal.type
    /\ q.endpoint = (CASE modal.type = "single" -> "/emails/logs/" \o modal.id
                       [] modal.type = "bulk" -> "/emails/logs/bulk-delete"
                       [] modal.type = "all" -> "/emails/logs/delete-all")
    /\ q.body.method = (IF modal.type = "bulk" THEN "POST" ELSE "DELETE")

\* C20: a delete request is issued only by the Delete button of the open
\* modal of its type (and, for one row, its id); a delete that succeeds
\* leaves a fetch of /emails/logs in flight; and the loaded log list
\* changes only in a step that settles a /emails/logs request.
C20_DeleteThenRefetch ==
    /\ [][\A q \in net' \ net :
            q.owner \in DeleteOwners =>
               LogsConfirmDelete /\ ConfirmedBy(q, shell.confirmModal)]_vars
    /\ [][\A r \in net, f \in LogsReplies :
            DeleteSucceeds(r, f) =>
               \E q \in net' \ net : q.endpoint = "/emails/logs" /\ q.alive]_vars
    /\ [][shell'.logs # shell.logs =>
            \E r \in net \ net' : r.endpoint = "/emails/logs"]_vars

C20_Witness ==
    /\ StatsShown
    /\ shell.isDeleting
    /\ shell.confirmModal = [show |-> TRUE, type |-> "single", id |-> "l1"]
    /\ "l1" \in LogIds
    /\ \E q \in net : q.owner = "logs.after" /\ q.endpoint = "/emails/logs"

(***************************************************************************)
(* Properties of the mount of UserStats (SpecSession).                     *)
(***************************************************************************)
StatsOwners == {"stats.usage", "stats.logs"}

\* The fetches of initData that have not settled
StatsInFlight == {r \in net : r.alive /\ r.owner \in StatsOwners}

\* C21: the two fetches of initData are issued in the same step; while
\* UserStats is mounted its loading flag is true exactly while one of them
\* has not settled, and the reply that settles the last one clears the
\* flag whether the replies are successes or failures.
C21_StatsStartupJoin ==
    /\ [][(StatsInFlight' \ StatsInFlight) # {} =>
            {r.owner : r \in StatsInFlight' \ StatsInFlight} = StatsOwners]_vars
    /\ [](Mounted("overview") => (shell.statsLoading <=> StatsInFlight # {}))
    /\ [][\A r \in net, f \in SessionReplies :
            StatsReply(r, f) =>
               shell'.statsLoading = (StatsInFlight \ {r} # {})]_vars

C21_Witness ==
    /\ Mounted("overview")
    /\ shell.statsLoading
    /\ {r.owner : r \in StatsInFlight} = {"stats.logs"}

(***************************************************************************)
(* Properties of the rows of the domain table (SpecChecks).                *)
(***************************************************************************)
InFlightFor(owner, d) ==
    \E r \in net : r.alive /\ r.owner = owner /\ r.body.domain = d

\* disabled={checkingDomain === d.domain}
CheckDisabled(d) == dom.checkingDomain = d

\* disabled={deletingDomain === d.domain}
DeleteDisabled(d) == dom.deletingDomain = d

\* C22: while a check-status request for a listed domain is in flight the
\* Check button of its row is disabled, and while a delete request for it
\* is in flight its Delete button is disabled.
C22_InFlightControlsDisabled ==
    \A d \in ListedDomains :
        /\ InFlightFor("dom.check", d) => CheckDisabled(d)
        /\ InFlightFor("dom.delete", d) => DeleteDisabled(d)

(***************************************************************************)
(* Properties of the submit of the campaign panels (SpecPanels).           *)
(***************************************************************************)
RequestInFlight(owner) == \E r \in net : r.alive /\ r.owner = owner

\* The in-flight flag, the position of the submit handler and the owner of
\* its request, for the panel that is mounted.
MountedPanel ==
    CASE shell.activeTab = "schedule" -> [loading |-> sched.loading, pc |-> sched.pc]
      [] shell.activeTab = "auto" -> [loading |-> auto.loading, pc |-> auto.pc]
      [] shell.activeTab = "master" -> [loading |-> master.loading, pc |-> master.pc]
      [] shell.activeTab = "extract" -> [loading |-> extract.loading, pc |-> extract.pc]

\* C23 as stated: the in-flight flag of a campaign panel is true only while
\* a request of that panel is in flight.
C23_FlagOnlyWhileRequestInFlight ==
    (View = "user" /\ shell.activeTab \in SubmitTabs) =>
        (MountedPanel.loading => RequestInFlight(shell.activeTab))

\* C23, amended: the in-flight flag of a campaign panel is true exactly
\* while its submit is in progress, that is while the chosen file is being
\* read or a request of the panel is in flight; so it is false after a
\* validation failure and once the request has settled with any outcome,
\* and the submit button, disabled by the flag (in Extract also without a
\* file), is enabled again.
C23_FlagExactlyWhileSubmitting ==
    (View = "user" /\ shell.activeTab \in SubmitTabs) =>
        /\ MountedPanel.loading <=>
              (MountedPanel.pc = "reading" \/ RequestInFlight(shell.activeTab))
        /\ MountedPanel.pc = "reading" => ~RequestInFlight(shell.activeTab)
        /\ \A tab \in SubmitTabs \ {shell.activeTab} : ~RequestInFlight(tab)

C23_Witness ==
    /\ Mounted("master")
    /\ master.error = JStr("Invalid credentials")
    /\ ~master.loading
    /\ ~RequestInFlight("master")

\* A state value that is neither null nor undefined
NonNull(v) == v.t \notin {"null", "undefined"}

\* C29: the Auto-Schedule, Master-Schedule and Extract panels never hold a
\* non-null result and a non-null error at the same time.
C29_ResultAndErrorExclusive ==
    /\ ~(NonNull(auto.result) /\ NonNull(auto.error))
    /\ ~(NonNull(master.result) /\ NonNull(master.error))
    /\ ~(NonNull(extract.resultBase64) /\ NonNull(extract.error))

(***************************************************************************)
(* Properties of the root (SpecSession).                                   *)
(***************************************************************************)
\* The values of the root's token with which no token is held: the initial
\* null, and the undefined or empty access_token of a login reply.
NoTokens == {JNull, JUndefined, JStr("")}

\* C25: the Auth Flow is shown exactly when the root holds no token; the
\* Admin Console only with a token and the admin flag, otherwise the User
\* Console Shell; logout clears the token and the admin flag, and a login
\* whose probe fails does not land in the Admin Console, whatever the
\* session before it was.
C25_RootViewAndLogout ==
    /\ [](View = "auth" <=> token \in NoTokens)
    /\ [](View = "admin" <=> (token \notin NoTokens /\ isAdmin))
    /\ [](View = "user" <=> (token \notin NoTokens /\ ~isAdmin))
    /\ [][Logout => (token' = JNull /\ isAdmin' = FALSE /\ View' = "auth")]_vars
    /\ [][\A r \in net, f \in ProbeReplies :
            (AuthProbeReply(r, f) /\ apiCall(f, TRUE).k # "return") =>
                (~isAdmin' /\ View' # "admin")]_vars

C25_Witness ==
    /\ View = "auth"
    /\ token = JNull
    /\ ~isAdmin
    /\ \E r \in net : ~r.alive

(***************************************************************************)
(* Properties of the collections across panels of one tab (SpecShare).     *)
(***************************************************************************)
TemplateIdsOf(list) == {list[k].id : k \in 1..Len(list)}

EmailsOf(list) == {list[k].email : k \in 1..Len(list)}

\* C24: a campaign panel that mounts shows the persisted templates and (the
\* Schedule and Auto-Schedule panels) the persisted senders; a save
\* persists the new template or sender and keeps the ones persisted
\* before, a delete removes the deleted template or sender and no other,
\* so what a panel saved is in the list of the panels mounted afterwards
\* until it is deleted.
C24_SharedByRereadOnMount ==
    /\ [][\A tab \in CampaignTabs :
            SetActiveTab(tab) =>
               /\ storage' = storage
               /\ mem'.templates = PersistedTemplates
               /\ SenderValues(mem'.savedSenders) =
                     IF tab = "master" THEN <<>> ELSE SenderValues(PersistedSenders)]_vars
    /\ [][\A tab \in CampaignTabs :
            /\ (saveTemplate(tab) /\ mem.template.name # "") =>
                  /\ NewTemplateId \in TemplateIdsOf(PersistedTemplates')
                  /\ TemplateIdsOf(PersistedTemplates) \subseteq TemplateIdsOf(PersistedTemplates')
            /\ deleteTemplate(tab) =>
                  TemplateIdsOf(PersistedTemplates') =
                     TemplateIdsOf(PersistedTemplates) \ {mem.selectedTemplateId}]_vars
    /\ [][/\ ((ScheduleSaveSenderProfile(1) \/ AutoSaveSenderProfile)
                 /\ mem.senders[1].email # "") =>
                  /\ mem.senders[1].email \in EmailsOf(PersistedSenders')
                  /\ EmailsOf(PersistedSenders) \subseteq EmailsOf(PersistedSenders')
          /\ \A e \in {"a@b.com", "c@d.com"} :
                deleteSavedSender(e) =>
                   EmailsOf(PersistedSenders') = EmailsOf(PersistedSenders) \ {e}]_vars

(***************************************************************************)
(* Properties of the saved senders (SpecSenders).                          *)
(***************************************************************************)
\* C30: the persisted savedSenders collection has at most one entry per
\* email and no entry with an empty email, and deleteSavedSender(e) removes
\* exactly the entry with email e.
C30_SavedSendersKeyedByEmail ==
    /\ [](\A i, j \in 1..Len(PersistedSenders) :
             /\ PersistedSenders[i].email # ""
             /\ i # j => PersistedSenders[i].email # PersistedSenders[j].email)
    /\ [][\A e \in SenderEmails :
            deleteSavedSender(e) =>
               SenderValues(PersistedSenders') =
                  SenderValues(WithoutSender(PersistedSenders, e))]_vars

(***************************************************************************)
(* Properties of the delayed close of the edit modal (SpecAdmin).          *)
(***************************************************************************)
\* C27: the delayed close scheduled by a successful save closes only the
\* modal in which that save was made: it closes neither a modal opened
\* since nor one showing the error of a later save.
C27_TimerClosesOnlySavedModal ==
    [][(AdminCloseTimer /\ shell.editingUser # "") =>
          (Head(shell.timerModals) = shell.opened /\ shell.adminMsg.type # "error")]_vars

\* C28: the address sent with POST /verify-signup-otp is the address of the
\* most recent accepted POST /signup, whatever edits of the email field and
\* uses of "Change Email" happened in between.
C28_VerifyCarriesOtpEmail ==
    [][AuthCompleteSignup => auth.signupData.email = auth.otpSentTo]_vars

\* new is t with tagStart put in front of t[start..end) and tagEnd behind it,
\* every character of t kept at its place in the order.
WrapsSelection(t, start, end, tagStart, tagEnd, new) ==
    /\ Len(new) = Len(t) + Len(tagStart) + Len(tagEnd)
    /\ \A i \in 1..start : new[i] = t[i]
    /\ \A i \in 1..Len(tagStart) : new[start + i] = tagStart[i]
    /\ \A i \in 1..(end - start) : new[start + Len(tagStart) + i] = t[start + i]
    /\ \A i \in 1..Len(tagEnd) : new[end + Len(tagStart) + i] = tagEnd[i]
    /\ \A i \in 1..(Len(t) - end) :
          new[end + Len(tagStart) + Len(tagEnd) + i] = t[end + i]

InsertTagSetsBody ==
    [][\A tg \in TagButtons :
          EditorInsertTag(tg) =>
             IF editor.isPreview THEN editor'.body = editor.body
             ELSE WrapsSelection(editor.body, editor.selectionStart, editor.selectionEnd,
                                 tg.tagStart, tg.tagEnd, editor'.body)]_vars

\* C26 as stated: insertTag wraps the selection [start, end) of the body in
\* the two tags and leaves the rest of the text as it was, it leaves the body
\* alone in preview, and the selection is moved to
\* [start + |tagStart|, end + |tagStart|).
C26_InsertTagMovesSelection ==
    /\ InsertTagSetsBody
    /\ [][EditorTimer =>
            (/\ editor'.selectionStart = Head(editor.timers).start
             /\ editor'.selectionEnd = Head(editor.timers).end)]_vars

\* C26, amended: insertTag sets the body as stated and hands setTimeout a
\* callback for the textarea it read; when the callback runs it sets the
\* selection of that textarea to [start + |tagStart|, end + |tagStart|), both
\* limited to the length of the text then, and changes no selection when that
\* textarea is no longer mounted.
C26_InsertTagSchedulesSelection ==
    /\ InsertTagSetsBody
    /\ [][\A tg \in TagButtons :
            (EditorInsertTag(tg) /\ ~editor.isPreview) =>
               editor'.timers =
                  Append(editor.timers,
                         [el |-> editor.el,
                          start |-> editor.selectionStart + Len(tg.tagStart),
                          end |-> editor.selectionEnd + Len(tg.tagStart)])]_vars
    /\ [][EditorTimer =>
            IF ~editor.isPreview /\ Head(editor.timers).el = editor.el
            THEN /\ editor'.selectionStart =
                       Smaller(Head(editor.timers).start, Len(editor.body))
                 /\ editor'.selectionEnd =
                       Smaller(Head(editor.timers).end, Len(editor.body))
            ELSE /\ editor'.selectionStart = editor.selectionStart
                 /\ editor'.selectionEnd = editor.selectionEnd]_vars

\* "b" of "abc" was selected, the Bold button was pressed and the callback has
\* run.
C26_Witness ==
    /\ editor.body = <<"a", "<", "b", ">", "b", "<", "/", "b", ">", "c">>
    /\ editor.selectionStart = 4
    /\ editor.selectionEnd = 5
    /\ editor.timers = <<>>
    /\ ~editor.isPreview

====
